---------------------------- MODULE Spec2Model ----------------------------
(***************************************************************************)
(* A model of dns-tools (src/CloudFlare/cloudflare.mjs and                 *)
(* src/porkbun/porkbun.ts).                                                *)
(*                                                                         *)
(* The parts, each with its own specification:                            *)
(*   SpecBulk     the Bulk Provisioner: createSameDNSRecordsForManyDomains *)
(*                and createDifferentDNSRecordsForManyDomains, both over   *)
(*                insertDNSRecords / insertDNSRecord / getZoneId;          *)
(*   SpecRedirect the Redirect Replacer: changeDomainRedirect;             *)
(*   SpecPages    the page loop of getDomains;                             *)
(*   SpecPagesStale  the page loop over a listing that changes size;       *)
(*   SpecFilter   getDomains' filters and sort;                            *)
(*   SpecRecon    writeDomainsToFileByExclusion;                           *)
(*   SpecMany     the six multi-domain loops;                              *)
(*   SpecSeq      the outstanding I/O of one bulk run;                     *)
(*   SpecText     createDomainRecordsMapFromTextFile;                      *)
(*   SpecDkim     getFilteredDNSRecords;                                   *)
(*   SpecPorkbun  the Porkbun tool: ping, then the batch of creates;       *)
(*   SpecPipeline the main IIFE: the Mapping Builder, then the Bulk        *)
(*                Provisioner on the map it returned.                      *)
(*                                                                         *)
(* The remote API is the environment: every request's outcome is chosen    *)
(* nondeterministically.  The program is sequential: an action is one      *)
(* request together with the synchronous code that follows its response.   *)
(***************************************************************************)
EXTENDS Integers, Sequences, FiniteSets, TLC

VARIABLES
  \* ---- Bulk Provisioner
  mode,         \* "same": one record list for every domain; "map": a list per domain
  domains,      \* the caller's domain list, or Object.keys(domainToRecordsMap)
  recLists,     \* recLists[i]: the record objects (heap addresses) destined for domains[i]
  heap,         \* the caller's record objects: address -> [type, host, value]
  heap0,        \* the record objects as they were when the batch was called
  di,           \* position of the batch loop in domains
  ri,           \* position of insertDNSRecords' loop in the record list
  domResults,   \* insertDNSRecords' local results, then its return value
  results,      \* the batch result list
  calls,        \* every API request issued so far, with its outcome
  pc,           \* control position of the batch
  \* ---- Redirect Replacer
  rules,        \* the zone's active page rules, in the order the fetch returns them
  rules0,       \* the zone's page rules before the call
  pageRules,    \* changeDomainRedirect's fetched copy
  inflight,     \* the requests issued and not yet completed
  events,       \* request/response events of changeDomainRedirect, in order
  rpc,          \* control position of changeDomainRedirect
  rerror,       \* the error changeDomainRedirect raised, "" if none
  appends,      \* the appends to the error log it started, with how each ended
  \* ---- getDomains
  total,        \* number of items of the remote listing
  allResults,   \* getDomains' accumulated listing
  page,         \* getDomains' page counter
  hasMorePages, \* getDomains' loop flag
  requests,     \* the pages requested so far, in order
  counts,       \* the total_count each answered page request reported
  gpc,          \* control position of getDomains
  \* ---- writeDomainsToFileByExclusion
  dir,          \* the ./domains directory: file name -> parsed content
  dir0,         \* the directory as the latest run found it
  outputFileName, \* the run's argument
  runs,         \* number of runs completed
  \* ---- getDomains after the page loop
  fetched,      \* the accumulated listing: items [id, created_on, status]
  excludeExpired, \* getDomains' second argument
  excludePaused,  \* getDomains' third argument
  returned,     \* getDomains' return value
  fpc,          \* control position: "filter", "returned"
  \* ---- multi-domain operations
  mop,          \* the batch function called
  mdomains,     \* its domain list
  mi,           \* position of its for loop
  mstep,        \* the request the current domain's operation is about to issue
  mrecs,        \* DNS records deleteFilteredDNSRecords has still to delete
  mresults,     \* the batch's local results array
  mreturned,    \* what the batch call produced
  mcalls,       \* every request issued so far, with its outcome
  mpc,          \* control position: "loop", "return", "returned", "raised"
  \* ---- I/O of one bulk run
  sdomains,     \* number of domains of the run
  srecords,     \* number of records per domain
  sd,           \* position in the domains
  sr,           \* position in the records
  apiOut,       \* API requests issued and not yet answered
  logOut,       \* error-log appends started and not yet completed
  spc,          \* control position: "getZoneId", "insertDNSRecord", "done"
  \* ---- createDomainRecordsMapFromTextFile
  lines,        \* the lines of the text file
  li,           \* position of the for loop in lines
  recordsMap,   \* the map under construction: entries [domain, records] in key order
  reported,     \* the lines reported as invalid, in order
  tmap,         \* the function's return value
  tpc,          \* control position: "read", "loop", "returned"
  \* ---- getFilteredDNSRecords
  qtype,        \* the type argument
  qcontent,     \* the content argument
  qresult,      \* the records the API lists for the zone and type
  qfiltered,    \* the function's return value
  qpc,          \* control position: "request", "returned", "raised"
  \* ---- Porkbun tool (porkbun.ts, main)
  pmode,        \* "list" (processDomainList) or "file" (processDomainFile)
  pitems,       \* the [domain, content] pairs, or the lines of the input file
  pk,           \* index of the next pair or line
  preqs,        \* requests sent so far, each with the answer and what the function returned
  ppc           \* ping, exit, open, loop, failed, done

bulkVars  == <<mode, domains, recLists, heap, heap0, di, ri, domResults, results, calls, pc>>
redirVars == <<rules, rules0, pageRules, inflight, events, rpc, rerror, appends>>
pageVars  == <<total, allResults, page, hasMorePages, requests, counts, gpc>>
reconVars == <<dir, dir0, outputFileName, runs>>
coreVars  == <<bulkVars, redirVars, pageVars>>
filterVars == <<fetched, excludeExpired, excludePaused, returned, fpc>>
manyVars  == <<mop, mdomains, mi, mstep, mrecs, mresults, mreturned, mcalls, mpc>>
seqVars   == <<sdomains, srecords, sd, sr, apiOut, logOut, spc>>
textVars  == <<lines, li, recordsMap, reported, tmap, tpc>>
dkimVars == <<qtype, qcontent, qresult, qfiltered, qpc>>
porkbunVars == <<pmode, pitems, pk, preqs, ppc>>
extVars   == <<reconVars, filterVars, manyVars, seqVars, textVars, dkimVars, porkbunVars>>
vars      == <<coreVars, extVars>>

\* What the actions of each later part leave alone.
restRecon == <<coreVars, filterVars, manyVars, seqVars, textVars, dkimVars, porkbunVars>>
restFilter == <<coreVars, reconVars, manyVars, seqVars, textVars, dkimVars, porkbunVars>>
restMany == <<coreVars, reconVars, filterVars, seqVars, textVars, dkimVars, porkbunVars>>
restSeq == <<coreVars, reconVars, filterVars, manyVars, textVars, dkimVars, porkbunVars>>
restText == <<coreVars, reconVars, filterVars, manyVars, seqVars, dkimVars, porkbunVars>>
restDkim == <<coreVars, reconVars, filterVars, manyVars, seqVars, textVars, porkbunVars>>
restPorkbun == <<coreVars, reconVars, filterVars, manyVars, seqVars, textVars, dkimVars>>

\* ------------------------------------------------------------------ bounds
\* The size of a batch's input: its domains plus its record objects.
MaxInput   == 4
MaxRules   == 2
MaxItems   == 120
\* The number of zones of the full snapshot; the runs of the reconciler.
MaxZones   == 3
MaxRuns    == 2
\* The number of items getDomains filters and sorts.
MaxFetched == 2
\* The domains of a multi-domain operation; the DNS records one zone's
\* filter matches.
MaxBatch   == 2
MaxMatched == 2
\* The domains, and the records per domain, of the run whose I/O is followed.
MaxSeq     == 2
\* The lines of the mapping file.
MaxLines   == 3
\* The records the API lists for one zone.
MaxListed  == 2
\* Pairs or lines given to one run of the Porkbun tool.
MaxEntries == 2

\* ------------------------------------------------------------- vocabulary
AllNames == <<"a.com", "b.com", "c.com", "d.com", "e.com", "f.com">>
AllValues == <<"v1", "v2", "v3", "v4", "v5", "v6">>
Hosts == {"", "@", "www"}
na == "-"

Iota(n) == [k \in 1..n |-> k]

IsPrefix(s, t) == Len(s) <= Len(t) /\ SubSeq(t, 1, Len(s)) = s

\* Outcomes of one request: "ok" (2xx, success: true), "apifail" (2xx with
\* success: false), "neterr" (axios rejects: transport error or non-2xx).
\* The zone lookup has "empty" too: a 2xx whose result list is empty.
LookupOutcomes == {"ok", "neterr", "empty"}
CreateOutcomes == {"ok", "apifail", "neterr"}

\* cloudflareRequest: rejects exactly when axios rejects, after one attempt.
RequestThrows(outcome) == outcome = "neterr"

\* getZoneId: result[0].id; throws when the request throws, and a TypeError
\* when the result list is empty.
GetZoneIdThrows(outcome) == RequestThrows(outcome) \/ outcome = "empty"

InsertDNSRecordThrowsNoFlagCheck(outcome) == RequestThrows(outcome)

\* insertDNSRecord: throws when the request throws or the response's success
\* flag is false.
InsertDNSRecordThrows(outcome) == RequestThrows(outcome) \/ outcome # "ok"

ErrorMessage(outcome) ==
  CASE outcome = "neterr"  -> "request failed"
    [] outcome = "empty"   -> "Cannot read properties of undefined"
    [] outcome = "apifail" -> "Failed to create DNS record"
    [] OTHER               -> ""

EnclosingCatchNone(site) == "none"

\* The try block that catches an exception thrown at a call site.
EnclosingCatch(site) ==
  CASE site = "insertDNSRecord"  -> "record"   \* try 262, catch 273
    [] site = "getZoneId"        -> "domain"   \* try 252, catch 289
    [] site = "insertDNSRecords" -> "batch"    \* try 300/331, catch 311/343
    [] OTHER                     -> "none"

NormalizeHostEmptyOnly(host, domain) == IF host = "" THEN domain ELSE host

\* insertDNSRecords, lines 258-260.
NormalizeHost(host, domain) ==
  IF host = "@" \/ host = "" THEN domain ELSE host

\* One entry of a result list.  record and error are optional fields: the
\* empty set when absent, a singleton when present.
RecordResult(success, domain, rec, outcome) ==
  [success |-> success, domain |-> domain,
   record  |-> {[type |-> rec.type, host |-> rec.host, value |-> rec.value]},
   error   |-> IF success THEN {} ELSE {ErrorMessage(outcome)}]

DomainFailure(domain, outcome) ==
  [success |-> FALSE, domain |-> domain, record |-> {},
   error |-> {ErrorMessage(outcome)}]

ZoneFailureResultsPerRecord(domain, n, outcome) ==
  [k \in 1..n |-> DomainFailure(domain, outcome)]

\* insertDNSRecords' catch, line 291: what it returns for a domain with n
\* intended records whose zone id did not resolve.
ZoneFailureResults(domain, n, outcome) == <<DomainFailure(domain, outcome)>>

RecordLoopNextBreak(j, failed) == IF failed THEN MaxInput + 2 ELSE j + 1

RecordLoopNextRetry(j, failed) == IF failed THEN j ELSE j + 1

\* The for loop of insertDNSRecords, lines 257-286: the catch is inside the
\* loop body, so the loop goes on to the next record either way.
RecordLoopNext(j, failed) == j + 1

PushResultsFront(list, domainResults) == domainResults \o list

PushResultsReplace(list, domainResults) == domainResults

\* results.push(...domainResults), lines 305 and 337.
PushResults(list, domainResults) == list \o domainResults

CurDomain == domains[di]
CurRecords == recLists[di]

LookupCall(domain, outcome) ==
  [op |-> "getZoneId", domain |-> domain, host |-> na, value |-> na,
   outcome |-> outcome]

CreateCall(domain, rec, outcome) ==
  [op |-> "insertDNSRecord", domain |-> domain, host |-> rec.host,
   value |-> rec.value, outcome |-> outcome]

\* ------------------------------------------------------- other parts idle
RedirIdle ==
  /\ rules = <<>> /\ rules0 = <<>> /\ pageRules = <<>> /\ inflight = {}
  /\ events = <<>> /\ rpc = "idle" /\ rerror = "" /\ appends = <<>>

PagesIdle ==
  /\ total = 0 /\ allResults = <<>> /\ page = 0 /\ hasMorePages = FALSE
  /\ requests = <<>> /\ counts = <<>> /\ gpc = "idle"

BulkIdle ==
  /\ mode = "idle" /\ domains = <<>> /\ recLists = <<>>
  /\ heap = <<>> /\ heap0 = <<>> /\ di = 0 /\ ri = 0
  /\ domResults = <<>> /\ results = <<>> /\ calls = <<>> /\ pc = "idle"

CoreIdle == BulkIdle /\ RedirIdle /\ PagesIdle

ReconIdle ==
  /\ dir = <<>> /\ dir0 = <<>> /\ runs = 0
  /\ outputFileName = [stem |-> na, ext |-> na]

FilterIdle ==
  /\ fetched = <<>> /\ excludeExpired = FALSE /\ excludePaused = FALSE
  /\ returned = <<>> /\ fpc = "idle"

ManyIdle ==
  /\ mop = "idle" /\ mdomains = <<>> /\ mi = 0 /\ mstep = na /\ mrecs = 0
  /\ mresults = <<>> /\ mreturned = [kind |-> na] /\ mcalls = <<>> /\ mpc = "idle"

SeqIdle ==
  /\ sdomains = 0 /\ srecords = 0 /\ sd = 0 /\ sr = 0
  /\ apiOut = 0 /\ logOut = 0 /\ spc = "idle"

TextIdle ==
  /\ lines = <<>> /\ li = 0 /\ recordsMap = <<>> /\ reported = <<>>
  /\ tmap = [kind |-> na] /\ tpc = "idle"

DkimIdle ==
  /\ qtype = na /\ qcontent = <<>> /\ qresult = <<>> /\ qfiltered = <<>>
  /\ qpc = "idle"

PorkbunIdle ==
  /\ pmode = na /\ pitems = <<>> /\ pk = 0 /\ preqs = <<>> /\ ppc = na

ExtIdle == ReconIdle /\ FilterIdle /\ ManyIdle /\ SeqIdle /\ TextIdle /\ DkimIdle /\ PorkbunIdle

\* The other parts idle, for the Init of each later part.
ReconRestIdle == CoreIdle /\ FilterIdle /\ ManyIdle /\ SeqIdle /\ TextIdle /\ DkimIdle /\ PorkbunIdle
FilterRestIdle == CoreIdle /\ ReconIdle /\ ManyIdle /\ SeqIdle /\ TextIdle /\ DkimIdle /\ PorkbunIdle
ManyRestIdle == CoreIdle /\ ReconIdle /\ FilterIdle /\ SeqIdle /\ TextIdle /\ DkimIdle /\ PorkbunIdle
SeqRestIdle == CoreIdle /\ ReconIdle /\ FilterIdle /\ ManyIdle /\ TextIdle /\ DkimIdle /\ PorkbunIdle
TextRestIdle == CoreIdle /\ ReconIdle /\ FilterIdle /\ ManyIdle /\ SeqIdle /\ DkimIdle /\ PorkbunIdle
DkimRestIdle == CoreIdle /\ ReconIdle /\ FilterIdle /\ ManyIdle /\ SeqIdle /\ TextIdle /\ PorkbunIdle
PorkbunRestIdle == CoreIdle /\ ReconIdle /\ FilterIdle /\ ManyIdle /\ SeqIdle /\ TextIdle /\ DkimIdle

\* ------------------------------------------------------------ Bulk: Init

InitBulk ==
  \E m \in 0..MaxInput, md \in {"same", "map"} :
    \E n \in 0..(MaxInput - m) :
    \E hosts \in [1..n -> Hosts], owner \in [1..n -> 1..m] :
      /\ \A a, b \in 1..n : a <= b => owner[a] <= owner[b]
      /\ md = "same" => \A a \in 1..n : owner[a] = 1
      /\ mode = md
      /\ domains = [i \in 1..m |-> AllNames[i]]
      /\ recLists = [i \in 1..m |->
                       IF md = "same" THEN Iota(n)
                       ELSE LET Mine(o) == owner[o] = i
                            IN  SelectSeq(Iota(n), Mine)]
      /\ heap = [o \in 1..n |->
                   [type |-> "TXT", host |-> hosts[o], value |-> AllValues[o]]]
      /\ heap0 = heap
      /\ di = 1 /\ ri = 1
      /\ domResults = <<>> /\ results = <<>> /\ calls = <<>>
      /\ pc = IF m = 0 THEN "summary" ELSE "getZoneId"
      /\ RedirIdle /\ PagesIdle /\ ExtIdle

\* --------------------------------------------------------- Bulk: actions
NextDomainPc(i) == IF i > Len(domains) THEN "summary" ELSE "getZoneId"

\* insertDNSRecords up to its first record: line 253, and on failure the
\* catch of line 289.
GetZoneId ==
  /\ pc = "getZoneId"
  /\ \E outcome \in LookupOutcomes :
       /\ calls' = Append(calls, LookupCall(CurDomain, outcome))
       /\ IF ~GetZoneIdThrows(outcome)
          THEN /\ ri' = 1
               /\ domResults' = <<>>
               /\ pc' = IF Len(CurRecords) = 0 THEN "return" ELSE "insertDNSRecord"
               /\ UNCHANGED <<results, di>>
          ELSE CASE EnclosingCatch("getZoneId") = "domain" ->
                      /\ domResults' = ZoneFailureResults(CurDomain, Len(CurRecords), outcome)
                      /\ pc' = "return"
                      /\ UNCHANGED <<results, di, ri>>
                 [] EnclosingCatch("getZoneId") = "batch" ->
                      /\ results' = Append(results, DomainFailure(CurDomain, outcome))
                      /\ di' = di + 1
                      /\ pc' = NextDomainPc(di + 1)
                      /\ UNCHANGED <<domResults, ri>>
                 [] OTHER ->
                      /\ pc' = "raised"
                      /\ UNCHANGED <<results, di, ri, domResults>>
  /\ UNCHANGED <<mode, domains, recLists, heap, heap0>>
  /\ UNCHANGED <<redirVars, pageVars, extVars>>

\* One iteration of insertDNSRecords' loop, lines 257-286, with the call of
\* insertDNSRecord (222-248) it makes.
InsertDNSRecord ==
  /\ pc = "insertDNSRecord"
  /\ \E outcome \in CreateOutcomes :
       LET o      == CurRecords[ri]
           h      == NormalizeHost(heap[o].host, CurDomain)
           rec    == [heap[o] EXCEPT !.host = h]
           failed == InsertDNSRecordThrows(outcome)
           next   == RecordLoopNext(ri, failed)
       IN  /\ heap' = [heap EXCEPT ![o] = rec]
           /\ calls' = Append(calls, CreateCall(CurDomain, rec, outcome))
           /\ IF ~failed \/ EnclosingCatch("insertDNSRecord") = "record"
              THEN /\ domResults' = Append(domResults,
                                      RecordResult(~failed, CurDomain, rec, outcome))
                   /\ ri' = next
                   /\ pc' = IF next > Len(CurRecords) THEN "return" ELSE "insertDNSRecord"
                   /\ UNCHANGED <<results, di>>
              ELSE CASE EnclosingCatch("insertDNSRecord") = "domain" ->
                          /\ domResults' = ZoneFailureResults(CurDomain, Len(CurRecords), outcome)
                          /\ pc' = "return"
                          /\ UNCHANGED <<results, di, ri>>
                     [] EnclosingCatch("insertDNSRecord") = "batch" ->
                          /\ results' = Append(results, DomainFailure(CurDomain, outcome))
                          /\ di' = di + 1
                          /\ pc' = NextDomainPc(di + 1)
                          /\ UNCHANGED <<domResults, ri>>
                     [] OTHER ->
                          /\ pc' = "raised"
                          /\ UNCHANGED <<results, di, ri, domResults>>
  /\ UNCHANGED <<mode, domains, recLists, heap0>>
  /\ UNCHANGED <<redirVars, pageVars, extVars>>

\* insertDNSRecords returns (288 or 291) and the batch loop pushes what it
\* returned (304-310, 336-342), then goes to the next domain.
DomainReturn ==
  /\ pc = "return"
  /\ results' = PushResults(results, domResults)
  /\ domResults' = <<>>
  /\ di' = di + 1
  /\ pc' = NextDomainPc(di + 1)
  /\ UNCHANGED <<mode, domains, recLists, heap, heap0, ri, calls>>
  /\ UNCHANGED <<redirVars, pageVars, extVars>>

\* The successful domains of a result list, line 318 / 350.
SuccessfulDomains(list) ==
  {list[k].domain : k \in {k \in 1..Len(list) : list[k].success}}

\* The summary and the return of the batch, lines 317-322, 349-354.
BatchReturn ==
  /\ pc = "summary"
  /\ Cardinality(SuccessfulDomains(results)) <= Len(domains)
  /\ pc' = "done"
  /\ UNCHANGED <<mode, domains, recLists, heap, heap0, di, ri, domResults, results, calls>>
  /\ UNCHANGED <<redirVars, pageVars, extVars>>

NextBulk == GetZoneId \/ InsertDNSRecord \/ DomainReturn \/ BatchReturn

SpecBulk == InitBulk /\ [][NextBulk]_vars

\* ------------------------------------------------- Bulk: claims C1 .. C7
IsLookup(c) == c.op = "getZoneId"
IsCreate(c) == c.op = "insertDNSRecord"
HasRecord(r) == r.record # {}

LookupsOf(d) == LET T(c) == IsLookup(c) /\ c.domain = d IN SelectSeq(calls, T)
CreatesOf(d) == LET T(c) == IsCreate(c) /\ c.domain = d IN SelectSeq(calls, T)
ResultsOf(d) == LET T(r) == r.domain = d IN SelectSeq(results, T)

\* The zone lookup of domains[i] was issued and failed.
LookupFailed(i) ==
  \E k \in 1..Len(calls) :
    IsLookup(calls[k]) /\ calls[k].domain = domains[i] /\ calls[k].outcome # "ok"

\* The zone lookup of domains[i] was issued and resolved.
LookupResolved(i) ==
  \E k \in 1..Len(calls) :
    IsLookup(calls[k]) /\ calls[k].domain = domains[i] /\ calls[k].outcome = "ok"

DomIdx(d) == CHOOSE i \in 1..Len(domains) : domains[i] = d
\* The position in domains[i]'s record list of the record with value v.
RecIdx(i, v) == CHOOSE k \in 1..Len(recLists[i]) : heap0[recLists[i][k]].value = v
TheRecord(r) == CHOOSE x \in r.record : TRUE

\* C1: for every domain whose zone-id lookup failed no record-create call is
\* ever issued; the returned list holds exactly one result for it, with
\* success = false and no record field; and every later domain of the batch
\* has been processed (its own lookup was issued) when the batch returns.
C1_ZoneFailureIsolated ==
  \A i \in 1..Len(domains) :
    LookupFailed(i) =>
      /\ CreatesOf(domains[i]) = <<>>
      /\ pc = "done" =>
           /\ Len(ResultsOf(domains[i])) = 1
           /\ ~ResultsOf(domains[i])[1].success
           /\ ~HasRecord(ResultsOf(domains[i])[1])
           /\ \A j \in (i + 1)..Len(domains) :
                /\ Len(LookupsOf(domains[j])) = 1
                /\ LookupResolved(j) =>
                     Len(ResultsOf(domains[j])) = Len(recLists[j])

\* The first domain's lookup failed although two records were meant for it,
\* and the second domain got its records.
C1_Witness ==
  /\ pc = "done" /\ Len(domains) >= 2
  /\ LookupFailed(1) /\ Len(recLists[1]) = 2
  /\ LookupResolved(2) /\ Len(ResultsOf(domains[2])) >= 1

\* C2: for every domain whose zone id resolved, the returned list holds
\* exactly one result per record of its list, in list order, each naming its
\* record, whatever creates failed: the k-th create was issued for the k-th
\* record, and a failed k-th create gives a success = false k-th result.
C2_OneResultPerRecord ==
  pc = "done" =>
    \A i \in 1..Len(domains) :
      LookupResolved(i) =>
        LET d  == domains[i]
            rs == ResultsOf(d)
            cs == CreatesOf(d)
        IN  /\ Len(rs) = Len(recLists[i])
            /\ Len(cs) = Len(recLists[i])
            /\ \A k \in 1..Len(rs) :
                 /\ HasRecord(rs[k])
                 /\ TheRecord(rs[k]).value = heap0[recLists[i][k]].value
                 /\ cs[k].value = heap0[recLists[i][k]].value
                 /\ cs[k].outcome # "ok" => ~rs[k].success

\* A domain with two records whose first create failed and whose second
\* create was still issued, and succeeded.
C2_Witness ==
  /\ pc = "done"
  /\ \E i \in 1..Len(domains) :
       /\ Len(CreatesOf(domains[i])) = 2
       /\ CreatesOf(domains[i])[1].outcome # "ok"
       /\ CreatesOf(domains[i])[2].outcome = "ok"
       /\ ResultsOf(domains[i])[2].success

\* C3: every record-create call issued for domain d carries host d when the
\* input record's host was "" or "@", and the input record's host otherwise;
\* in both modes, for every domain of the batch.
C3_HostNormalizedEveryDomain ==
  \A i \in 1..Len(domains) :
    LET cs == CreatesOf(domains[i])
    IN  \A k \in 1..Len(cs) :
          LET h0 == heap0[recLists[i][k]].host
          IN  cs[k].host = IF h0 \in {"", "@"} THEN domains[i] ELSE h0

\* C4: the batch never raises, whatever lookups and creates fail.
C4_NeverRaises == pc # "raised"

\* The batch returned although every one of its items failed: a zone lookup
\* and a record create among them.
C4_Witness ==
  /\ pc = "done" /\ Len(domains) = 2
  /\ \A k \in 1..Len(calls) : calls[k].outcome # "ok" \/ IsLookup(calls[k])
  /\ \E k \in 1..Len(calls) : IsLookup(calls[k]) /\ calls[k].outcome = "neterr"
  /\ \E k \in 1..Len(calls) : IsCreate(calls[k]) /\ calls[k].outcome = "neterr"
  /\ \A k \in 1..Len(results) : ~results[k].success

NumCreates(cs) == Cardinality({k \in 1..Len(cs) : IsCreate(cs[k])})
NumFailedLookups(cs) ==
  Cardinality({k \in 1..Len(cs) : IsLookup(cs[k]) /\ cs[k].outcome # "ok"})

\* C5: the batch result list only grows by appending, and when the batch
\* returns its length is the number of record-create calls issued plus the
\* number of domains whose zone lookup failed.
C5_AppendOnlyOneToOne ==
  [][/\ IsPrefix(results, results')
     /\ pc' = "done" =>
          Len(results') = NumCreates(calls') + NumFailedLookups(calls')]_vars

\* A returned batch with a failed lookup, a failed create and a successful one.
C5_Witness ==
  /\ pc = "done"
  /\ NumFailedLookups(calls) >= 1
  /\ NumCreates(calls) >= 2
  /\ Len(results) >= 3

\* C6: results (and the calls that produced them) follow the order of the
\* domain list and, within a domain, the order of its record list.
C6_ResultsInInputOrder ==
  /\ \A k, l \in 1..Len(results) :
       k < l =>
         LET a == DomIdx(results[k].domain)
             b == DomIdx(results[l].domain)
         IN  /\ a <= b
             /\ (a = b /\ HasRecord(results[k]) /\ HasRecord(results[l])) =>
                  RecIdx(a, TheRecord(results[k]).value)
                    < RecIdx(a, TheRecord(results[l]).value)
  /\ \A k, l \in 1..Len(calls) :
       k < l =>
         LET a == DomIdx(calls[k].domain)
             b == DomIdx(calls[l].domain)
         IN  /\ a <= b
             /\ (a = b /\ IsCreate(calls[k]) /\ IsCreate(calls[l])) =>
                  RecIdx(a, calls[k].value) < RecIdx(a, calls[l].value)

\* Two domains with two records each, all four results returned.
C6_Witness ==
  /\ pc = "done" /\ Len(domains) = 2
  /\ Len(ResultsOf(domains[1])) = 2 /\ Len(ResultsOf(domains[2])) = 2
  /\ Len(results) = 4

RecordResults == LET T(r) == HasRecord(r) IN SelectSeq(results \o domResults, T)
CreateCalls == SelectSeq(calls, IsCreate)

\* C7: the result of a record has success = true only if its create call
\* came back at the transport level with success: true; a response with
\* success: false gives a success = false result.
C7_SuccessFlagAuthoritative ==
  /\ Len(RecordResults) = Len(CreateCalls)
  /\ \A k \in 1..Len(RecordResults) :
       RecordResults[k].success <=> CreateCalls[k].outcome = "ok"

\* A create answered 2xx with success: false and reported as a failure, next
\* to one that succeeded.
C7_Witness ==
  /\ pc = "done"
  /\ \E k \in 1..Len(CreateCalls) :
       CreateCalls[k].outcome = "apifail" /\ ~RecordResults[k].success
  /\ \E k \in 1..Len(CreateCalls) :
       CreateCalls[k].outcome = "ok" /\ RecordResults[k].success

\* ============================================================ Redirect
\* changeDomainRedirect(domain, newRedirectUrl), lines 593-655.  Here a
\* request is two steps, its issue and its completion, so that what is
\* outstanding when the next request is issued can be observed.

PageRuleOutcomes == {"ok", "apifail", "neterr"}

\* rule.actions.some((action) => action.id === 'forwarding_url'), line 601.
IsForwarding(rule) == rule.fwd

HasForwarding(list) == \E k \in 1..Len(list) : IsForwarding(list[k])

FirstForwardingLast(list) ==
  list[CHOOSE k \in 1..Len(list) :
         IsForwarding(list[k]) /\ \A j \in (k + 1)..Len(list) : ~IsForwarding(list[j])]

\* pageRules.find(...), line 601: the first forwarding rule in fetched order.
FirstForwarding(list) ==
  list[CHOOSE k \in 1..Len(list) :
         IsForwarding(list[k]) /\ \A j \in 1..(k - 1) : ~IsForwarding(list[j])]

\* The rule the API stores for the body of lines 614-635.
NewRule(id) == [id |-> id, fwd |-> TRUE, url |-> "new", code |-> 301]

\* The rule ids are 1..Len(rules0); the API gives the next one to a new rule.
FreshId == Len(rules0) + 1

WithoutRule(list, id) == LET T(r) == r.id # id IN SelectSeq(list, T)

DeleteNotAwaited == FALSE

\* Line 606: await cloudflareRequest({ method: 'DELETE', ... }).
DeleteAwaited == TRUE

\* getPageRules, lines 580-590: throws when the request throws or the
\* response's success flag is false.
GetPageRulesThrows(outcome) == RequestThrows(outcome) \/ outcome # "ok"

\* Line 606: the response of the delete is not looked at.
DeleteThrows(outcome) == RequestThrows(outcome)

CreateRuleThrowsNoFlagCheck(outcome) == RequestThrows(outcome)

\* Lines 637-648: throws when the request throws or success is false.
CreateRuleThrows(outcome) == RequestThrows(outcome) \/ outcome # "ok"

CatchBlockRethrows(caught) == caught

\* The catch of lines 649-654 reads zoneId, a const of the try block that is
\* out of scope there: line 650 throws a ReferenceError in place of the
\* error it caught, and lines 651-653 are not reached.
CatchBlockRaises(caught) == "zoneId is not defined"

\* How an fs.appendFile to the error log ends.
LogOutcomes == {"ok", "fail"}
AppendError == "cannot append to cloudflare_errors.log"

\* n calls of console.error, lines 21-35: each starts an append that nobody
\* awaits and whose failure is caught at line 31.
ConsoleError(n) ==
  \E w \in [1..n -> LogOutcomes] :
    appends' = appends \o [k \in 1..n |-> [awaited |-> FALSE, outcome |-> w[k]]]

\* await fs.appendFile(...), line 645.
AwaitedAppend(outcome) == [awaited |-> TRUE, outcome |-> outcome]

Req(op, id) == [ev |-> "req", op |-> op, id |-> id, outcome |-> na]
Resp(op, id, outcome) == [ev |-> "resp", op |-> op, id |-> id, outcome |-> outcome]

InitRedirect ==
  \E n \in 0..MaxRules :
    \E f \in [1..n -> BOOLEAN] :
      /\ rules0 = [k \in 1..n |->
                     [id |-> k, fwd |-> f[k],
                      url |-> IF f[k] THEN "old" ELSE na,
                      code |-> IF f[k] THEN 302 ELSE 0]]
      /\ rules = rules0
      /\ pageRules = <<>> /\ inflight = {} /\ events = <<>>
      /\ rpc = "getZoneId" /\ rerror = "" /\ appends = <<>>
      /\ BulkIdle /\ PagesIdle /\ ExtIdle

\* Line 595, the request of getZoneId.
SendGetZoneId ==
  /\ rpc = "getZoneId"
  /\ events' = Append(events, Req("getZoneId", 0))
  /\ inflight' = inflight \cup {"getZoneId"}
  /\ rpc' = "awaitZoneId"
  /\ UNCHANGED <<rules, rules0, pageRules, rerror, appends>>
  /\ UNCHANGED <<bulkVars, pageVars, extVars>>

\* Line 595, the response.
RecvGetZoneId ==
  /\ rpc = "awaitZoneId"
  /\ \E outcome \in LookupOutcomes :
       /\ events' = Append(events, Resp("getZoneId", 0, outcome))
       /\ inflight' = inflight \ {"getZoneId"}
       /\ IF GetZoneIdThrows(outcome)
          THEN rpc' = "catch" /\ rerror' = ErrorMessage(outcome)
          ELSE rpc' = "getPageRules" /\ UNCHANGED rerror
       /\ ConsoleError(IF RequestThrows(outcome) THEN 1 ELSE 0)
  /\ UNCHANGED <<rules, rules0, pageRules>>
  /\ UNCHANGED <<bulkVars, pageVars, extVars>>

\* Line 598 / 581, the request of getPageRules.
SendGetPageRules ==
  /\ rpc = "getPageRules"
  /\ events' = Append(events, Req("getPageRules", 0))
  /\ inflight' = inflight \cup {"getPageRules"}
  /\ rpc' = "awaitPageRules"
  /\ UNCHANGED <<rules, rules0, pageRules, rerror, appends>>
  /\ UNCHANGED <<bulkVars, pageVars, extVars>>

\* Lines 581-590 and 598-604: the response, and the search for a forwarding
\* rule that decides whether a delete comes next.
RecvGetPageRules ==
  /\ rpc = "awaitPageRules"
  /\ \E outcome \in PageRuleOutcomes :
       /\ events' = Append(events, Resp("getPageRules", 0, outcome))
       /\ inflight' = inflight \ {"getPageRules"}
       /\ IF GetPageRulesThrows(outcome)
          THEN /\ rpc' = "catch"
               /\ rerror' = IF outcome = "apifail" THEN "Failed to fetch page rules"
                            ELSE ErrorMessage(outcome)
               /\ UNCHANGED pageRules
          ELSE /\ pageRules' = rules
               /\ rpc' = IF HasForwarding(rules) THEN "delete" ELSE "create"
               /\ UNCHANGED rerror
       /\ ConsoleError(IF RequestThrows(outcome) THEN 2
                       ELSE IF GetPageRulesThrows(outcome) THEN 1 ELSE 0)
  /\ UNCHANGED <<rules, rules0>>
  /\ UNCHANGED <<bulkVars, pageVars, extVars>>

\* Lines 605-606, the request of the delete.
SendDelete ==
  /\ rpc = "delete"
  /\ events' = Append(events, Req("delete", FirstForwarding(pageRules).id))
  /\ inflight' = inflight \cup {"delete"}
  /\ rpc' = IF DeleteAwaited THEN "awaitDelete" ELSE "create"
  /\ UNCHANGED <<rules, rules0, pageRules, rerror, appends>>
  /\ UNCHANGED <<bulkVars, pageVars, extVars>>

\* Line 606, the response of the delete; the API removes the rule when it
\* answers success.
RecvDelete ==
  /\ "delete" \in inflight
  /\ \E outcome \in PageRuleOutcomes :
       LET id == FirstForwarding(pageRules).id
       IN  /\ events' = Append(events, Resp("delete", id, outcome))
           /\ inflight' = inflight \ {"delete"}
           /\ rules' = IF outcome = "ok" THEN WithoutRule(rules, id) ELSE rules
           /\ IF rpc = "awaitDelete"
              THEN IF DeleteThrows(outcome)
                   THEN rpc' = "catch" /\ rerror' = ErrorMessage(outcome)
                   ELSE rpc' = "create" /\ UNCHANGED rerror
              ELSE UNCHANGED <<rpc, rerror>>
           /\ ConsoleError(IF RequestThrows(outcome) THEN 1 ELSE 0)
  /\ UNCHANGED <<rules0, pageRules>>
  /\ UNCHANGED <<bulkVars, pageVars, extVars>>

\* Lines 610-641, the request of the create.
SendCreate ==
  /\ rpc = "create"
  /\ events' = Append(events, Req("create", 0))
  /\ inflight' = inflight \cup {"create"}
  /\ rpc' = "awaitCreate"
  /\ UNCHANGED <<rules, rules0, pageRules, rerror, appends>>
  /\ UNCHANGED <<bulkVars, pageVars, extVars>>

\* Lines 637-648, the response of the create; the API stores the rule when
\* it answers success.  When it answers success: false the message is first
\* appended to the log (645, awaited inside the try block), then passed to
\* console.error (646), then the error is thrown (647).
RecvCreate ==
  /\ rpc = "awaitCreate"
  /\ \E outcome \in PageRuleOutcomes :
       /\ events' = Append(events, Resp("create", 0, outcome))
       /\ inflight' = inflight \ {"create"}
       /\ rules' = IF outcome = "ok" THEN Append(rules, NewRule(FreshId)) ELSE rules
       /\ IF RequestThrows(outcome)
          THEN /\ rpc' = "catch" /\ rerror' = ErrorMessage(outcome)
               /\ ConsoleError(1)
          ELSE IF CreateRuleThrows(outcome)
          THEN /\ rpc' = "catch"
               /\ \/ /\ rerror' = AppendError
                     /\ appends' = Append(appends, AwaitedAppend("fail"))
                  \/ /\ rerror' = "Failed to change domain redirect"
                     /\ \E w \in LogOutcomes :
                          appends' = appends \o << AwaitedAppend("ok"),
                                       [awaited |-> FALSE, outcome |-> w] >>
          ELSE rpc' = "done" /\ UNCHANGED <<rerror, appends>>
  /\ UNCHANGED <<rules0, pageRules>>
  /\ UNCHANGED <<bulkVars, pageVars, extVars>>

\* Lines 649-654.
CatchBlock ==
  /\ rpc = "catch"
  /\ rerror' = CatchBlockRaises(rerror)
  /\ rpc' = "raised"
  /\ UNCHANGED <<rules, rules0, pageRules, inflight, events, appends>>
  /\ UNCHANGED <<bulkVars, pageVars, extVars>>

NextRedirect ==
  \/ SendGetZoneId \/ RecvGetZoneId \/ SendGetPageRules \/ RecvGetPageRules
  \/ SendDelete \/ RecvDelete \/ SendCreate \/ RecvCreate \/ CatchBlock

SpecRedirect == InitRedirect /\ [][NextRedirect]_vars

\* ------------------------------------------------------ claims C8, C9
IsPageRuleEvent(e) == e.op \in {"getPageRules", "delete", "create"}
PageRuleEvents == SelectSeq(events, IsPageRuleEvent)
Shape(e) == <<e.ev, e.op, e.id>>

\* The page-rule traffic of a replace: fetch, delete of the rule id, create,
\* each request answered before the next one is issued.
ReplaceSequence(id) ==
  << <<"req", "getPageRules", 0>>, <<"resp", "getPageRules", 0>>,
     <<"req", "delete", id>>,      <<"resp", "delete", id>>,
     <<"req", "create", 0>>,       <<"resp", "create", 0>> >>

\* C8: for a zone with a forwarding rule the page-rule requests are fetch,
\* delete of that rule's id, create, in this order, each issued only after
\* the one before it has completed; a call that returns normally has issued
\* exactly these three.
C8_FetchDeleteCreateOrder ==
  HasForwarding(rules0) =>
    /\ IsPrefix([k \in 1..Len(PageRuleEvents) |-> Shape(PageRuleEvents[k])],
                ReplaceSequence(FirstForwarding(rules0).id))
    /\ rpc = "done" => Len(PageRuleEvents) = 6

\* A replace that ran to its end on a zone whose forwarding rule is not the
\* first rule fetched.
C8_Witness ==
  /\ rpc = "done" /\ Len(rules0) = 2
  /\ ~IsForwarding(rules0[1]) /\ IsForwarding(rules0[2])
  /\ Len(PageRuleEvents) = 6

DeleteSucceeded ==
  \E k \in 1..Len(events) :
    events[k].ev = "resp" /\ events[k].op = "delete" /\ events[k].outcome = "ok"

CreateFailed ==
  \E k \in 1..Len(events) :
    events[k].ev = "resp" /\ events[k].op = "create" /\ events[k].outcome # "ok"

NumForwarding(list) == Cardinality({k \in 1..Len(list) : IsForwarding(list[k])})

\* After the failed create: the call raises (it is in its catch block or has
\* raised), the response of the create is the last event (no further
\* request), nothing is outstanding.
RaisesWithoutFurtherCall ==
  /\ rpc \in {"catch", "raised"}
  /\ rpc = "raised" => rerror # ""
  /\ events[Len(events)].op = "create" /\ events[Len(events)].ev = "resp"
  /\ inflight = {}

\* C9 as stated: when the create fails after the delete succeeded, the call
\* raises, issues no further request, and the zone has no forwarding rule.
C9_Original_NoForwardingRuleLeft ==
  (DeleteSucceeded /\ CreateFailed) =>
    /\ RaisesWithoutFurtherCall
    /\ ~HasForwarding(rules)

\* C9 amended: when the create fails after the delete succeeded, the call
\* raises and issues no further request; the zone is left with its rules of
\* before less the deleted one, which is not re-created: with no forwarding
\* rule when the deleted rule was its only forwarding rule.
C9_DeletedRuleNotRestored ==
  (DeleteSucceeded /\ CreateFailed) =>
    /\ RaisesWithoutFurtherCall
    /\ rules = WithoutRule(rules0, FirstForwarding(rules0).id)
    /\ NumForwarding(rules0) = 1 => ~HasForwarding(rules)

\* The call has raised after a successful delete and a create answered with
\* success: false, on a zone that had one forwarding rule.
C9_Witness ==
  /\ rpc = "raised" /\ DeleteSucceeded /\ NumForwarding(rules0) = 1
  /\ \E k \in 1..Len(events) :
       events[k].ev = "resp" /\ events[k].op = "create" /\ events[k].outcome = "apifail"
  /\ ~HasForwarding(rules)

\* ============================================================ getDomains
\* The page loop of getDomains, lines 67-90.  The remote listing is the
\* items 1..total in remote order.

\* per_page, line 75.
PerPage == 50

Min(a, b) == IF a <= b THEN a ELSE b
Max(a, b) == IF a >= b THEN a ELSE b
Ceil(a, b) == (a + b - 1) \div b

\* The API's answer to a request for page k.
RemotePage(k) ==
  LET lo == (k - 1) * PerPage + 1
      hi == Min(k * PerPage, total)
  IN  [j \in 1..(hi - lo + 1) |-> lo + j - 1]

ResultInfo(k) == [page |-> k, per_page |-> PerPage, total_count |-> total]

LastPageStrict(info) == info.page * info.per_page > info.total_count

\* Line 85: the loop's exit test.
LastPage(info) == info.page * info.per_page >= info.total_count

InitPages ==
  \E n \in 0..MaxItems :
    /\ total = n
    /\ allResults = <<>> /\ page = 1 /\ hasMorePages = TRUE
    /\ requests = <<>> /\ counts = <<>> /\ gpc = "loop"
    /\ BulkIdle /\ RedirIdle /\ ExtIdle

\* One iteration of the while loop, lines 73-90.  A failed request is thrown
\* out of getDomains, which has no try.
FetchPage ==
  /\ gpc = "loop" /\ hasMorePages
  /\ requests' = Append(requests, page)
  /\ \E outcome \in {"ok", "neterr"} :
       IF RequestThrows(outcome)
       THEN /\ gpc' = "raised"
            /\ UNCHANGED <<allResults, page, hasMorePages, counts>>
       ELSE /\ allResults' = allResults \o RemotePage(page)
            /\ counts' = Append(counts, ResultInfo(page).total_count)
            /\ IF LastPage(ResultInfo(page))
               THEN hasMorePages' = FALSE /\ page' = page /\ gpc' = "fetched"
               ELSE hasMorePages' = TRUE /\ page' = page + 1 /\ gpc' = "loop"
  /\ UNCHANGED total
  /\ UNCHANGED <<bulkVars, redirVars, extVars>>

NextPages == FetchPage

SpecPages == InitPages /\ [][NextPages]_vars

\* C10 as stated: the loop issues exactly ceil(N/P) requests.
C10_Original_CeilRequests ==
  gpc = "fetched" =>
    /\ Len(requests) = Ceil(total, PerPage)
    /\ requests = Iota(Len(requests))
    /\ allResults = Iota(total)

\* C10 amended: with every request succeeding the loop issues exactly
\* max(1, ceil(N/P)) requests (one request even for an empty listing), for
\* pages 1, 2, ... in increasing order, and the accumulated listing is the N
\* items in remote order.
C10_PagesFetched ==
  gpc = "fetched" =>
    /\ Len(requests) = Max(1, Ceil(total, PerPage))
    /\ requests = Iota(Len(requests))
    /\ allResults = Iota(total)

\* A listing of more than two pages fetched to its end.
C10_Witness ==
  /\ gpc = "fetched" /\ total > 2 * PerPage
  /\ Len(requests) = 3 /\ Len(allResults) = total

\* ------------------------------------------- getDomains, a listing that changes
\* The account's zones change while the pages are fetched: each answer reports
\* the total of the moment it is served.

\* The sizes the listing can have when the next request is served.
StaleTotals(t) == {0, t - 1, t, t + 1, MaxItems} \cap (0..MaxItems)

\* The API's answer to a request for page k of a listing of t items.
RemotePageOf(k, t) ==
  LET lo == (k - 1) * PerPage + 1
      hi == Min(k * PerPage, t)
  IN  [j \in 1..(hi - lo + 1) |-> lo + j - 1]

\* One iteration of the while loop, lines 73-90, the listing having changed
\* size since the request before.
FetchPageStale ==
  /\ gpc = "loop" /\ hasMorePages
  /\ requests' = Append(requests, page)
  /\ \E outcome \in {"ok", "neterr"}, t \in StaleTotals(total) :
       /\ total' = t
       /\ IF RequestThrows(outcome)
          THEN /\ gpc' = "raised"
               /\ UNCHANGED <<allResults, page, hasMorePages, counts>>
          ELSE LET info == [page |-> page, per_page |-> PerPage, total_count |-> t]
               IN  /\ allResults' = allResults \o RemotePageOf(page, t)
                   /\ counts' = Append(counts, info.total_count)
                   /\ IF LastPage(info)
                      THEN hasMorePages' = FALSE /\ page' = page /\ gpc' = "fetched"
                      ELSE hasMorePages' = TRUE /\ page' = page + 1 /\ gpc' = "loop"
  /\ UNCHANGED <<bulkVars, redirVars, extVars>>

NextPagesStale == FetchPageStale

\* Every request is answered, so the loop's next iteration always runs.
SpecPagesStale == InitPages /\ [][NextPagesStale]_vars /\ WF_vars(FetchPageStale)

MaxCount == IF counts = <<>> THEN 0
            ELSE CHOOSE c \in {counts[k] : k \in 1..Len(counts)} :
                   \A k \in 1..Len(counts) : counts[k] <= c

\* C11 as stated: the loop stops after ceil(total/pageSize) iterations, total
\* being the count of the last page fetched.
C11_Original_CeilOfLastTotal ==
  gpc = "fetched" => Len(requests) = Ceil(counts[Len(counts)], PerPage)

\* C11 amended: the loop terminates; it stops at the first page k whose
\* answer reports a total of at most k * pageSize, which is within
\* max(1, ceil(M / pageSize)) iterations, M the largest total reported.
C11_TerminatesWithinLargestTotal ==
  /\ [](gpc = "fetched" =>
          LET k == Len(requests)
          IN  /\ k = Len(counts)
              /\ k * PerPage >= counts[k]
              /\ \A j \in 1..(k - 1) : j * PerPage < counts[j]
              /\ k <= Max(1, Ceil(MaxCount, PerPage)))
  /\ <>(gpc \in {"fetched", "raised"})

\* The loop has stopped after fetching two pages of a listing that shrank
\* between the two answers.
C11_Witness ==
  /\ gpc = "fetched" /\ Len(requests) = 2
  /\ counts[2] < counts[1]

\* --------------------------------------------- writeDomainsToFileByExclusion
\* A file name is its stem and its extension; a file's content is the parsed
\* JSON array it holds.
File(stem, ext) == [stem |-> stem, ext |-> ext]
AllTxt == File("all", "txt")

\* file.endsWith('.txt'), line 182.
EndsWithTxtAny(file) == TRUE
EndsWithTxt(file) == file.ext = "txt"

ZoneIds == <<"z1", "z2", "z3", "z4", "z5", "z6">>
\* A name no zone of the account has.
OtherName == "z.com"

\* An item of a snapshot written by writeDomainsToFileByKeyword, lines 92-95
\* and 165.
Zone(k) == [id |-> ZoneIds[k], name |-> AllNames[k], status |-> "active"]
Stranger == [id |-> "z0", name |-> OtherName, status |-> "active"]

\* new Map(entries), line 177: a key keeps the position of its first
\* insertion and the value of its last.
MapSet(m, name, id) ==
  IF \E i \in DOMAIN m : m[i].name = name
  THEN [i \in DOMAIN m |-> IF m[i].name = name
                           THEN [name |-> name, id |-> id] ELSE m[i]]
  ELSE Append(m, [name |-> name, id |-> id])

RECURSIVE NewMap(_)
NewMap(entries) ==
  IF entries = <<>> THEN <<>>
  ELSE LET last == entries[Len(entries)]
       IN  MapSet(NewMap(SubSeq(entries, 1, Len(entries) - 1)), last.name, last.id)

\* allDomains.delete(domain), line 186.
MapDeleteOrFirst(m, name) ==
  LET Keep(kv) == kv.name # name
  IN  IF \E i \in DOMAIN m : m[i].name = name THEN SelectSeq(m, Keep)
      ELSE IF m = <<>> THEN m ELSE Tail(m)
MapDelete(m, name) ==
  LET Keep(kv) == kv.name # name
  IN  SelectSeq(m, Keep)

\* domains.forEach((domain) => allDomains.delete(domain)), lines 185-186.
RECURSIVE DeleteEach(_, _)
DeleteEach(m, names) ==
  IF names = <<>> THEN m
  ELSE DeleteEach(MapDelete(m, Head(names)), Tail(names))

NamesOf(content) == [i \in DOMAIN content |-> content[i].name]

\* The loop over the directory's files, lines 181-188.
RECURSIVE ExcludeFiles(_, _, _)
ExcludeFiles(m, d, files) ==
  IF files = {} THEN m
  ELSE LET file == CHOOSE f \in files : TRUE
       IN  ExcludeFiles(IF file # AllTxt /\ EndsWithTxt(file)
                        THEN DeleteEach(m, NamesOf(d[file]))
                        ELSE m,
                        d, files \ {file})

\* Array.from(allDomains, ([name, id]) => ({ id, name })), line 191.
FilteredDomains(m) == [i \in DOMAIN m |-> [id |-> m[i].id, name |-> m[i].name]]

\* What one run writes, given the directory d it finds.
Reconcile(d) == FilteredDomains(ExcludeFiles(NewMap(d[AllTxt]), d, DOMAIN d))

WriteFile(d, file, content) ==
  [f \in DOMAIN d \cup {file} |-> IF f = file THEN content ELSE d[f]]

\* Snapshots: lists of distinct zones.
Injective(q) == \A i, j \in DOMAIN q : i # j => q[i] # q[j]
FullSnapshots ==
  {[i \in DOMAIN q |-> Zone(q[i])] :
     q \in {q \in UNION {[1..k -> 1..MaxZones] : k \in 0..MaxZones} : Injective(q)}}
\* A keyword snapshot: some zones of the account in listing order, and
\* possibly a zone the full snapshot no longer has.
RECURSIVE ListOf(_, _)
ListOf(S, k) ==
  IF k = 0 THEN <<>>
  ELSE IF k \in S THEN Append(ListOf(S, k - 1), Zone(k)) ELSE ListOf(S, k - 1)
KeywordSnapshots ==
  UNION {{ListOf(S, MaxZones), Append(ListOf(S, MaxZones), Stranger)} :
           S \in {S \in SUBSET (1..MaxZones) : Cardinality(S) < MaxZones}}
SmallSnapshots == {q \in KeywordSnapshots : Len(q) <= 1}

InitRecon ==
  \E full \in FullSnapshots, x \in KeywordSnapshots,
     y \in SmallSnapshots, hasY \in BOOLEAN, out \in {File("out", "txt"), File("out", "json")} :
    /\ dir = LET base == (File("all", "txt") :> full) @@ (File("x", "txt") :> x)
                         @@ (File("notes", "md") :> <<Zone(1), Zone(2)>>)
             IN  IF hasY THEN base @@ (File("y", "txt") :> y) ELSE base
    /\ dir0 = <<>>
    /\ outputFileName = out
    /\ runs = 0
    /\ ReconRestIdle

\* One run of writeDomainsToFileByExclusion(outputFileName), lines 170-195.
WriteDomainsToFileByExclusion ==
  /\ outputFileName.ext # na /\ runs < MaxRuns
  /\ dir0' = dir
  /\ dir' = WriteFile(dir, outputFileName, Reconcile(dir))
  /\ runs' = runs + 1
  /\ UNCHANGED outputFileName
  /\ UNCHANGED restRecon

NextRecon == WriteDomainsToFileByExclusion

SpecRecon == InitRecon /\ [][NextRecon]_vars

\* The names the exclusion snapshots of directory d list.
ExcludedNames(d) ==
  UNION {{d[f][i].name : i \in DOMAIN d[f]} :
           f \in {g \in DOMAIN d : g.ext = "txt" /\ g # AllTxt}}

\* C12: a run writes exactly the entries (id and name) of all.txt whose names
\* no other .txt file of the directory lists, in all.txt's order; names the
\* other files list and all.txt lacks change nothing.
C12_ExactDifferenceInOrder ==
  runs >= 1 =>
    LET Keep(e) == e.name \notin ExcludedNames(dir0)
        kept == SelectSeq(dir0[AllTxt], Keep)
    IN  dir[outputFileName] =
          [i \in DOMAIN kept |-> [id |-> kept[i].id, name |-> kept[i].name]]

\* A first run over a full snapshot that is not in listing order, with an
\* exclusion file listing a stranger and one of the snapshot's names: part of
\* the snapshot is written.
C12_Witness ==
  /\ runs = 1
  /\ OtherName \in ExcludedNames(dir0)
  /\ Len(dir0[AllTxt]) = 3 /\ dir0[AllTxt][1] = Zone(2)
  /\ Len(dir[outputFileName]) = 2

\* C13: subtracting the same exclusion snapshots from a run's result yields
\* that result again.
C13_SubtractionIdempotent ==
  runs >= 1 =>
    Reconcile([dir0 EXCEPT ![AllTxt] = dir[outputFileName]]) = dir[outputFileName]

\* A run whose two exclusion files removed some names and left one, one of
\* the files listing a stranger.
C13_Witness ==
  /\ runs = 1
  /\ File("y", "txt") \in DOMAIN dir0
  /\ OtherName \in ExcludedNames(dir0)
  /\ Len(dir[outputFileName]) = 1
  /\ Len(dir0[AllTxt]) = 3

\* ------------------------------------ getDomains: filters and sort, 92-109
\* An instant is a day number, the millisecond of that day and the
\* microsecond of that millisecond.  A Date holds an instant to the
\* millisecond.  A timestamp string is the sequence of its fixed-width
\* blocks: the date and time to the millisecond (two numbers, which compare
\* as their zero-padded digits do), then one code per remaining character.
YearDays == 365
CharZ == 90
Digit(d) == 48 + d

\* Date.now(), line 100.
Now == [day |-> 400, ms |-> 5, us |-> 0]

\* The creation instants of the listing's items.
Times ==
  { [day |-> Now.day - YearDays,     ms |-> Now.ms,     us |-> 0],
    [day |-> Now.day - YearDays,     ms |-> Now.ms,     us |-> 500],
    [day |-> Now.day - YearDays,     ms |-> Now.ms + 1, us |-> 0],
    [day |-> Now.day - YearDays,     ms |-> Now.ms - 1, us |-> 500],
    [day |-> Now.day - YearDays + 1, ms |-> Now.ms,     us |-> 0],
    [day |-> Now.day - YearDays - 1, ms |-> Now.ms,     us |-> 0] }

\* created_on as the API writes it, to the microsecond
\* ('2024-03-06T04:22:37.872895Z', line 124).
ApiTimestamp(t) ==
  <<t.day, t.ms, Digit(t.us \div 100), Digit((t.us \div 10) % 10), Digit(t.us % 10), CharZ>>

\* new Date(Date.now() - 365 * 24 * 60 * 60 * 1000), line 100.
YearAgo(now) == [day |-> now.day - YearDays, ms |-> now.ms, us |-> 0]

\* Date.prototype.toISOString(): to the millisecond.
ToISOString(date) == <<date.day, date.ms, CharZ>>

\* new Date(created_on), line 109: a Date keeps the milliseconds.
ParseDate(str) == [day |-> str[1], ms |-> str[2], us |-> 0]

\* a > b on strings: the first differing character decides; a proper prefix
\* is the smaller.
RECURSIVE StringGreater(_, _)
StringGreater(a, b) ==
  IF a = <<>> THEN FALSE
  ELSE IF b = <<>> THEN TRUE
  ELSE IF Head(a) # Head(b) THEN Head(a) > Head(b)
  ELSE StringGreater(Tail(a), Tail(b))

\* a - b on Dates, in the sign the comparator of line 109 needs.
DateBefore(a, b) == a.day < b.day \/ (a.day = b.day /\ a.ms < b.ms)

\* The test of the age filter, line 100.
CreatedAfterByDate(created_on) ==
  DateBefore(YearAgo(Now), ParseDate(created_on))
CreatedAfter(created_on) ==
  StringGreater(created_on, ToISOString(YearAgo(Now)))

\* The test of the status filter, line 104.
NotPaused(item) == item.status # "paused"

\* Array.prototype.sort with the comparator of line 109: stable, ascending
\* by Date.
RECURSIVE InsertByDate(_, _)
InsertByDate(sorted, item) ==
  IF sorted = <<>> THEN <<item>>
  ELSE LET last == sorted[Len(sorted)]
       IN  IF DateBefore(ParseDate(item.created_on), ParseDate(last.created_on))
           THEN Append(InsertByDate(SubSeq(sorted, 1, Len(sorted) - 1), item), last)
           ELSE Append(sorted, item)

RECURSIVE SortByDate(_)
SortByDate(list) ==
  IF list = <<>> THEN <<>>
  ELSE InsertByDate(SortByDate(SubSeq(list, 1, Len(list) - 1)), list[Len(list)])

AgeFilter(list) ==
  LET Test(item) == CreatedAfter(item.created_on)
  IN  SelectSeq(list, Test)

StatusFilter(list) == SelectSeq(list, NotPaused)

InitFilter ==
  \E n \in 0..MaxFetched :
  \E created \in [1..n -> Times], status \in [1..n -> {"active", "paused"}],
     expired \in BOOLEAN, paused \in BOOLEAN :
    /\ fetched = [i \in 1..n |-> [id |-> i,
                                  created_on |-> ApiTimestamp(created[i]),
                                  status |-> status[i]]]
    /\ excludeExpired = expired
    /\ excludePaused = paused
    /\ returned = <<>>
    /\ fpc = "filter"
    /\ FilterRestIdle

\* Lines 92-109: the filters that are enabled, then the sort.
FilterAndSort ==
  /\ fpc = "filter"
  /\ LET aged == IF excludeExpired THEN AgeFilter(fetched) ELSE fetched
         unpaused == IF excludePaused THEN StatusFilter(aged) ELSE aged
     IN  returned' = SortByDate(unpaused)
  /\ fpc' = "returned"
  /\ UNCHANGED <<fetched, excludeExpired, excludePaused>>
  /\ UNCHANGED restFilter

NextFilter == FilterAndSort

SpecFilter == InitFilter /\ [][NextFilter]_vars

\* The instant a created_on string denotes.
InstantOf(str) ==
  [day |-> str[1], ms |-> str[2],
   us |-> (str[3] - 48) * 100 + (str[4] - 48) * 10 + (str[5] - 48)]

\* Instant t is strictly later than instant u.
Later(t, u) ==
  \/ t.day > u.day
  \/ t.day = u.day /\ t.ms > u.ms
  \/ t.day = u.day /\ t.ms = u.ms /\ t.us > u.us

IsReturned(item) == \E k \in DOMAIN returned : returned[k].id = item.id

\* C14: with the age filter on, an item that the status filter lets through
\* is kept if and only if it was created strictly later than now minus 365
\* days.
C14_KeptIffStrictlyLater ==
  (fpc = "returned" /\ excludeExpired) =>
    \A i \in DOMAIN fetched :
      (~excludePaused \/ fetched[i].status # "paused") =>
        (IsReturned(fetched[i])
           <=> Later(InstantOf(fetched[i].created_on), YearAgo(Now)))

\* ------------------------------------------------- multi-domain operations
\* createManyZones, deleteManyZones, pauseManyZones,
\* deleteManyFilteredDNSRecords, changeManyDomainRedirects and
\* getManyPendingNameservers: a for loop over the domains whose body is a
\* try/catch around the single-domain operation.
ZoneBatches == {"createManyZones", "deleteManyZones", "pauseManyZones"}
ManyOps == ZoneBatches \cup {"deleteManyFilteredDNSRecords",
                             "changeManyDomainRedirects",
                             "getManyPendingNameservers"}

\* The first request of the single-domain operation.
FirstStep(op) == IF op = "createManyZones" THEN "createZone" ELSE "getZoneId"

\* The request that follows the zone lookup.
AfterGetZoneId(op) ==
  CASE op = "deleteManyZones" -> "deleteZone"
    [] op = "pauseManyZones" -> "pauseZone"
    [] op = "deleteManyFilteredDNSRecords" -> "getFilteredDNSRecords"
    [] op = "changeManyDomainRedirects" -> "getPageRules"
    [] op = "getManyPendingNameservers" -> "getZone"

\* The answers a request can get.
StepOutcomes(step) ==
  IF step = "getZoneId" THEN LookupOutcomes ELSE CreateOutcomes

\* Whether the single-domain operation throws on a request's answer.
\* createZone and deleteZone return whatever success flag the answer has;
\* the others test the flag or use the result.
StepThrows(step, outcome) ==
  CASE step = "getZoneId" -> GetZoneIdThrows(outcome)
    [] step \in {"createZone", "deleteZone"} -> RequestThrows(outcome)
    [] OTHER -> outcome # "ok"

\* The for loop after the catch block.
AfterCatchAbandon(i, n) == n + 1
AfterCatch(i, n) == i + 1

\* results.push in the try block.
PushOnSuccess(op, list, domain, outcome) ==
  CASE op \in {"createManyZones", "deleteManyZones"} ->
         Append(list, [success |-> outcome = "ok", domain |-> domain,
                       result |-> IF outcome = "ok" THEN "zone" ELSE "null"])
    [] op = "pauseManyZones" -> Append(list, [domain |-> domain, success |-> TRUE])
    [] op = "getManyPendingNameservers" ->
         Append(list, [domain |-> domain, nameservers |-> "ns"])
    [] OTHER -> list

\* results.push in the catch block.
PushOnFailure(op, list, domain) ==
  IF op = "pauseManyZones"
  THEN Append(list, [domain |-> domain, success |-> FALSE, error |-> "message"])
  ELSE list

\* What the batch function produces once the loop is over.
Returned(op, list) ==
  CASE op = "createManyZones" ->
         IF \E k \in DOMAIN list : list[k].result = "null"
         THEN [kind |-> "raised", error |-> "TypeError"]
         ELSE [kind |-> "list",
               list |-> [k \in DOMAIN list |->
                           [success |-> list[k].success, domain |-> list[k].domain]]]
    [] op \in {"pauseManyZones", "getManyPendingNameservers"} ->
         [kind |-> "list", list |-> list]
    [] OTHER -> [kind |-> "undefined"]

InitMany ==
  \E op \in ManyOps, n \in 0..MaxBatch :
    /\ mop = op
    /\ mdomains = [k \in 1..n |-> AllNames[k]]
    /\ mi = 1
    /\ mstep = FirstStep(op)
    /\ mrecs = 0
    /\ mresults = <<>>
    /\ mreturned = [kind |-> na]
    /\ mcalls = <<>>
    /\ mpc = IF n = 0 THEN "return" ELSE "loop"
    /\ ManyRestIdle

ManyCall(step, outcome) ==
  [step |-> step, domain |-> mdomains[mi], outcome |-> outcome]

\* The current domain's operation is over, normally or by a throw.
DomainOver(threw, outcome) ==
  LET next == IF threw THEN AfterCatch(mi, Len(mdomains)) ELSE mi + 1
  IN  /\ mresults' = IF threw THEN PushOnFailure(mop, mresults, mdomains[mi])
                     ELSE PushOnSuccess(mop, mresults, mdomains[mi], outcome)
      /\ mi' = next
      /\ mstep' = FirstStep(mop)
      /\ mrecs' = 0
      /\ mpc' = IF next > Len(mdomains) THEN "return" ELSE "loop"

DomainGoesOn(step, n) ==
  /\ mstep' = step /\ mrecs' = n
  /\ UNCHANGED <<mi, mresults, mpc>>

\* getZoneId(domain), the first request of every operation but createZone.
ManyGetZoneId ==
  /\ mpc = "loop" /\ mstep = "getZoneId"
  /\ \E outcome \in StepOutcomes("getZoneId") :
       /\ mcalls' = Append(mcalls, ManyCall("getZoneId", outcome))
       /\ IF StepThrows("getZoneId", outcome)
          THEN DomainOver(TRUE, outcome)
          ELSE DomainGoesOn(AfterGetZoneId(mop), 0)
  /\ UNCHANGED <<mop, mdomains, mreturned>>
  /\ UNCHANGED restMany

\* The operation's own requests, one per step.
ManyRequest ==
  /\ mpc = "loop" /\ mstep \notin {"getZoneId", "deleteDNSRecord"}
  /\ \E outcome \in StepOutcomes(mstep) :
       /\ mcalls' = Append(mcalls, ManyCall(mstep, outcome))
       /\ IF StepThrows(mstep, outcome)
          THEN DomainOver(TRUE, outcome)
          ELSE CASE mstep = "getFilteredDNSRecords" ->
                      \E n \in 0..MaxMatched :
                        IF n = 0 THEN DomainOver(FALSE, outcome)
                        ELSE DomainGoesOn("deleteDNSRecord", n)
                 [] mstep = "getPageRules" ->
                      \E step \in {"deletePageRule", "createPageRule"} :
                        DomainGoesOn(step, 0)
                 [] mstep = "deletePageRule" -> DomainGoesOn("createPageRule", 0)
                 [] OTHER -> DomainOver(FALSE, outcome)
  /\ UNCHANGED <<mop, mdomains, mreturned>>
  /\ UNCHANGED restMany

\* deleteDNSRecord inside deleteFilteredDNSRecords' own try/catch, 549-558:
\* a failed delete is logged and the next record is deleted.
ManyDeleteDNSRecord ==
  /\ mpc = "loop" /\ mstep = "deleteDNSRecord"
  /\ \E outcome \in StepOutcomes(mstep) :
       /\ mcalls' = Append(mcalls, ManyCall(mstep, outcome))
       /\ IF mrecs = 1 THEN DomainOver(FALSE, "ok")
          ELSE DomainGoesOn("deleteDNSRecord", mrecs - 1)
  /\ UNCHANGED <<mop, mdomains, mreturned>>
  /\ UNCHANGED restMany

\* The statements after the loop.
ManyReturn ==
  /\ mpc = "return"
  /\ mreturned' = Returned(mop, mresults)
  /\ mpc' = IF Returned(mop, mresults).kind = "raised" THEN "raised" ELSE "returned"
  /\ UNCHANGED <<mop, mdomains, mi, mstep, mrecs, mresults, mcalls>>
  /\ UNCHANGED restMany

NextMany == ManyGetZoneId \/ ManyRequest \/ ManyDeleteDNSRecord \/ ManyReturn

SpecMany == InitMany /\ [][NextMany]_vars

\* The domains attempted so far, in order: a domain is attempted when the
\* first request of its operation is issued.
Attempts ==
  LET IsFirst(c) == c.step = FirstStep(mop)
      firsts == SelectSeq(mcalls, IsFirst)
  IN  [k \in DOMAIN firsts |-> firsts[k].domain]

ManyOver == mpc \in {"return", "returned", "raised"}

\* C15: the domains attempted are at all times a prefix of the input list,
\* each once, and the whole list once the loop is over, whatever the
\* requests answered.
C15_EveryDomainAttemptedInOrder ==
  /\ IsPrefix(Attempts, mdomains)
  /\ ManyOver => Attempts = mdomains

\* A batch of two domains is over, and the operation on the first threw.
C15_Witness ==
  /\ ManyOver /\ Len(mdomains) = 2
  /\ \E k \in DOMAIN mcalls :
       /\ mcalls[k].domain = mdomains[1]
       /\ StepThrows(mcalls[k].step, mcalls[k].outcome)
       /\ mcalls[k].step # "deleteDNSRecord"

\* C16: a zone batch returns a list with one entry per input domain, in
\* order, failed domains included, and does not raise.
C16_OneEntryPerDomainReturned ==
  (mop \in ZoneBatches /\ mpc \in {"returned", "raised"}) =>
    /\ mreturned.kind = "list"
    /\ Len(mreturned.list) = Len(mdomains)
    /\ \A k \in DOMAIN mdomains : mreturned.list[k].domain = mdomains[k]

\* ------------------------------------------------ I/O of one bulk run
\* createSameDNSRecordsForManyDomains with the start and the completion of
\* each I/O operation as separate steps.  An API request is awaited: the code
\* after it runs when the answer is there.  console.error (21-35) is an async
\* function whose callers never await it: each call starts an append to the
\* error log and returns.

\* console.error calls on the way of a zone lookup's answer: line 59 in
\* cloudflareRequest, line 290 in insertDNSRecords.
LookupLogs(outcome) ==
  (IF RequestThrows(outcome) THEN 1 ELSE 0) + (IF GetZoneIdThrows(outcome) THEN 1 ELSE 0)

\* console.error calls on the way of a record create's answer: line 59,
\* line 245 in insertDNSRecord, line 274 in insertDNSRecords.
CreateLogs(outcome) ==
  (IF RequestThrows(outcome) THEN 1 ELSE 0) + (IF InsertDNSRecordThrows(outcome) THEN 2 ELSE 0)

InitSeq ==
  \E n \in 1..MaxSeq, r \in 0..MaxSeq :
    /\ sdomains = n /\ srecords = r
    /\ sd = 1 /\ sr = 1
    /\ apiOut = 0 /\ logOut = 0
    /\ spc = "getZoneId"
    /\ SeqRestIdle

\* The loop positions after domain sd is over.
SeqNextDomain ==
  /\ sd' = sd + 1 /\ sr' = 1
  /\ spc' = IF sd + 1 > sdomains THEN "done" ELSE "getZoneId"

\* axios.request is called, line 55.
IssueRequest ==
  /\ spc \in {"getZoneId", "insertDNSRecord"} /\ apiOut = 0
  /\ apiOut' = 1
  /\ UNCHANGED <<sdomains, srecords, sd, sr, logOut, spc>>
  /\ UNCHANGED restSeq

\* The zone lookup is answered and the code up to the next request runs.
LookupAnswered ==
  /\ spc = "getZoneId" /\ apiOut = 1
  /\ apiOut' = 0
  /\ \E outcome \in LookupOutcomes :
       /\ logOut' = logOut + LookupLogs(outcome)
       /\ IF GetZoneIdThrows(outcome) \/ srecords = 0
          THEN SeqNextDomain
          ELSE spc' = "insertDNSRecord" /\ UNCHANGED <<sd, sr>>
  /\ UNCHANGED <<sdomains, srecords>>
  /\ UNCHANGED restSeq

\* The record create is answered and the code up to the next request runs.
CreateAnswered ==
  /\ spc = "insertDNSRecord" /\ apiOut = 1
  /\ apiOut' = 0
  /\ \E outcome \in CreateOutcomes :
       /\ logOut' = logOut + CreateLogs(outcome)
       /\ IF sr = srecords
          THEN SeqNextDomain
          ELSE sr' = sr + 1 /\ UNCHANGED <<sd, spc>>
  /\ UNCHANGED <<sdomains, srecords>>
  /\ UNCHANGED restSeq

\* fs.appendFile of line 30 completes.
LogAppendCompletes ==
  /\ logOut > 0
  /\ logOut' = logOut - 1
  /\ UNCHANGED <<sdomains, srecords, sd, sr, apiOut, spc>>
  /\ UNCHANGED restSeq

NextSeq == IssueRequest \/ LookupAnswered \/ CreateAnswered \/ LogAppendCompletes

SpecSeq == InitSeq /\ [][NextSeq]_vars

\* C17: at most one I/O operation, API request or error-log append, is
\* outstanding at any point of the run.
C17_OneIOOutstanding == apiOut + logOut <= 1

\* ----------------------------------------------------- Bulk: host invariant
\* C18: no record-create call carries an empty host or the host "@".
C18_NoEmptyOrAtHostSubmitted ==
  \A k \in DOMAIN calls :
    IsCreate(calls[k]) => calls[k].host \notin {"", "@"}

\* Create calls were issued for a record given with host "@" and for one
\* given with host "".
C18_Witness ==
  \E i, j \in 1..Len(domains) :
    /\ \E k \in 1..Len(CreatesOf(domains[i])) : heap0[recLists[i][k]].host = "@"
    /\ \E k \in 1..Len(CreatesOf(domains[j])) : heap0[recLists[j][k]].host = ""

\* ------------------------------------ createDomainRecordsMapFromTextFile
\* A line is the sequence of its tokens: words, the comment sign, and the
\* two whitespace characters.
TAB == "\t"
SP == " "
IsSpace(c) == c \in {SP, TAB}

\* String.prototype.trim.
RECURSIVE TrimStart(_)
TrimStart(str) ==
  IF str # <<>> /\ IsSpace(Head(str)) THEN TrimStart(Tail(str)) ELSE str
RECURSIVE TrimEnd(_)
TrimEnd(str) ==
  IF str # <<>> /\ IsSpace(str[Len(str)])
  THEN TrimEnd(SubSeq(str, 1, Len(str) - 1)) ELSE str
Trim(str) == TrimEnd(TrimStart(str))

\* String.prototype.split on a pattern of one or more characters of seps.
RECURSIVE SplitOn(_, _)
SplitOn(str, seps) ==
  IF \A k \in DOMAIN str : str[k] \notin seps THEN <<str>>
  ELSE LET i == CHOOSE k \in DOMAIN str :
                  str[k] \in seps /\ \A h \in 1..(k - 1) : str[h] \notin seps
           after == {k \in (i + 1)..Len(str) : str[k] \notin seps}
           j == IF after = {} THEN Len(str) + 1
                ELSE CHOOSE k \in after : \A h \in after : k <= h
       IN  <<SubSeq(str, 1, i - 1)>> \o SplitOn(SubSeq(str, j, Len(str)), seps)

\* line.trim().split(/\t+/), line 391.
SplitTabs(str) == SplitOn(str, {TAB})

\* line.trim().startsWith('#'), line 388.
StartsWithHash(str) == str # <<>> /\ Head(str) = "#"

\* The record of lines 405-410.
TxtRecord(value) == [type |-> "TXT", host |-> "", value |-> value, ttl |-> 3600]

\* Lines 400-413: recordsMap[domain] is created when absent, then pushed to.
HasKey(map, domain) == \E k \in DOMAIN map : map[k].domain = domain
AddRecordOverwrite(map, domain, record) ==
  IF HasKey(map, domain)
  THEN [k \in DOMAIN map |->
          IF map[k].domain = domain
          THEN [map[k] EXCEPT !.records = <<record>>] ELSE map[k]]
  ELSE Append(map, [domain |-> domain, records |-> <<record>>])
AddRecord(map, domain, record) ==
  IF HasKey(map, domain)
  THEN [k \in DOMAIN map |->
          IF map[k].domain = domain
          THEN [map[k] EXCEPT !.records = Append(@, record)] ELSE map[k]]
  ELSE Append(map, [domain |-> domain, records |-> <<record>>])

\* The lines a mapping file is made of.
LineSamples ==
  { <<>>,
    <<SP, SP>>,
    <<"#", SP, "a.com", TAB, "v1">>,
    <<TAB, "#", "b.com">>,
    <<"a.com", TAB, "v1">>,
    <<"a.com", TAB, "v2">>,
    <<"b.com", TAB, TAB, "v1">>,
    <<"a.com">>,
    <<"a.com", SP, SP, "v1">>,
    <<SP, "b.com", TAB, "v2", TAB, "v3", SP>>,
    <<"b.com", SP, TAB, "v1">> }

InitText ==
  \E n \in 0..MaxLines :
  \E file \in [1..n -> LineSamples] :
    /\ lines = file
    /\ li = 1
    /\ recordsMap = <<>>
    /\ reported = <<>>
    /\ tmap = [kind |-> na]
    /\ tpc = "read"
    /\ TextRestIdle

\* fsPromises.readFile, line 383; a failure is caught at line 417.
ReadFile ==
  /\ tpc = "read"
  /\ \E outcome \in {"ok", "error"} :
       IF outcome = "ok"
       THEN tpc' = "loop" /\ UNCHANGED tmap
       ELSE tpc' = "returned" /\ tmap' = [kind |-> "null"]
  /\ UNCHANGED <<lines, li, recordsMap, reported>>
  /\ UNCHANGED restText

\* One iteration of the for loop, lines 386-414.
ParseLine ==
  /\ tpc = "loop" /\ li <= Len(lines)
  /\ LET line == lines[li]
         parts == SplitTabs(Trim(line))
     IN  IF Trim(line) = <<>> \/ StartsWithHash(Trim(line))
         THEN UNCHANGED <<recordsMap, reported>>
         ELSE IF Len(parts) < 2
         THEN reported' = Append(reported, line) /\ UNCHANGED recordsMap
         ELSE /\ recordsMap' = AddRecord(recordsMap, parts[1], TxtRecord(parts[2]))
              /\ UNCHANGED reported
  /\ li' = li + 1
  /\ UNCHANGED <<lines, tmap, tpc>>
  /\ UNCHANGED restText

\* return recordsMap, line 416.
ReturnMap ==
  /\ tpc = "loop" /\ li > Len(lines)
  /\ tmap' = [kind |-> "map", map |-> recordsMap]
  /\ tpc' = "returned"
  /\ UNCHANGED <<lines, li, recordsMap, reported>>
  /\ UNCHANGED restText

NextText == ReadFile \/ ParseLine \/ ReturnMap

SpecText == InitText /\ [][NextText]_vars

\* The fields of a line for a given set of delimiter characters, and the
\* lines that are neither empty nor comments.
Fields(line, seps) == SplitOn(Trim(line), seps)
IsData(line) == Trim(line) # <<>> /\ Head(Trim(line)) # "#"
ValidLine(line) == IsData(line) /\ Len(Fields(line, {TAB})) >= 2
ShortLine(line) == IsData(line) /\ Len(Fields(line, {TAB})) < 2

RECURSIVE SumLens(_)
SumLens(map) ==
  IF map = <<>> THEN 0 ELSE Len(Head(map).records) + SumLens(Tail(map))

C20_WhitespaceDelimited ==
  (tpc = "returned" /\ tmap.kind = "map") =>
    \A h \in DOMAIN lines :
      (IsData(lines[h]) /\ Len(Fields(lines[h], {SP, TAB})) >= 2) =>
        \E k \in DOMAIN tmap.map :
          /\ tmap.map[k].domain = Fields(lines[h], {SP, TAB})[1]
          /\ \E r \in DOMAIN tmap.map[k].records :
               tmap.map[k].records[r].value = Fields(lines[h], {SP, TAB})[2]

\* ------------------------------------------------------- Bulk: no retries
\* C22: no domain's zone id is looked up twice and no record of a domain is
\* created twice, a failed create included; when the batch has returned,
\* every domain had exactly one lookup, and exactly one create per record of
\* its list if the zone id resolved.
C22_NoRetries ==
  \A i \in 1..Len(domains) :
    LET cs == CreatesOf(domains[i])
    IN  /\ Len(LookupsOf(domains[i])) <= 1
        /\ Len(cs) <= Len(recLists[i])
        /\ \A k \in 1..Len(cs) : cs[k].value = heap0[recLists[i][k]].value
        /\ pc = "done" =>
             /\ Len(LookupsOf(domains[i])) = 1
             /\ LookupResolved(i) => Len(cs) = Len(recLists[i])

\* The batch returned after a create call failed and the next record of
\* the same domain was created.
C22_Witness ==
  /\ pc = "done"
  /\ \E i \in 1..Len(domains) :
       LET cs == CreatesOf(domains[i])
       IN  /\ Len(cs) = 2
           /\ cs[1].outcome # "ok"
           /\ cs[2].outcome = "ok"

\* ------------------------------------------------ Redirect: further claims
Requests(op) ==
  LET T(e) == e.ev = "req" /\ e.op = op IN SelectSeq(events, T)

Answered(op, outcomes) ==
  \E k \in 1..Len(events) :
    events[k].ev = "resp" /\ events[k].op = op /\ events[k].outcome \in outcomes

Failures == {"apifail", "neterr", "empty"}

\* The position in events of the answer to the page-rule fetch.
FetchAnswerAt ==
  CHOOSE k \in 1..Len(events) : events[k].ev = "resp" /\ events[k].op = "getPageRules"

\* C24: at most one delete call is issued, and only for the first rule in
\* fetched order that has a forwarding action; once the fetch found such a
\* rule and the call went on, exactly one; when the fetched rules have none,
\* no delete is issued and the request after the fetch is the create.
C24_OneDeleteOfFirstForwarding ==
  LET deletes == Requests("delete")
      fwd == {k \in 1..Len(pageRules) : IsForwarding(pageRules[k])}
  IN  /\ Len(deletes) <= 1
      /\ \A d \in 1..Len(deletes) :
           /\ fwd # {}
           /\ \E k \in fwd : /\ \A h \in fwd : k <= h
                             /\ deletes[d].id = pageRules[k].id
      /\ Answered("getPageRules", {"ok"}) =>
           IF fwd # {}
           THEN rpc # "delete" => Len(deletes) = 1
           ELSE /\ deletes = <<>>
                /\ Len(events) > FetchAnswerAt =>
                     Shape(events[FetchAnswerAt + 1]) = <<"req", "create", 0>>

\* A zone with two forwarding rules: the first one fetched was deleted and
\* the call returned.
C24_Witness ==
  /\ rpc = "done" /\ Len(rules0) = 2
  /\ IsForwarding(rules0[1]) /\ IsForwarding(rules0[2])
  /\ Len(Requests("delete")) = 1 /\ Requests("delete")[1].id = rules0[1].id

\* A zone without forwarding rule: the create followed the fetch and the
\* call returned.
C24_WitnessNoRule ==
  /\ rpc = "done" /\ Len(rules0) = 1 /\ ~IsForwarding(rules0[1])
  /\ Requests("delete") = <<>> /\ Len(Requests("create")) = 1

\* C29: when the call returns normally for a zone that had at most one
\* forwarding rule, the zone has exactly one, it forwards to the new URL with
\* status 301, and the forwarding rule the zone had is gone.
C29_ExactlyOneNewForwardingRule ==
  (rpc = "done" /\ NumForwarding(rules0) <= 1) =>
    /\ NumForwarding(rules) = 1
    /\ \A k \in 1..Len(rules) :
         IsForwarding(rules[k]) => rules[k].url = "new" /\ rules[k].code = 301
    /\ \A k \in 1..Len(rules0) :
         IsForwarding(rules0[k]) =>
           \A h \in 1..Len(rules) : rules[h].id # rules0[k].id

\* C30: after a failed zone lookup, page-rule fetch or delete no create
\* call is issued and the call raises; after a failed lookup or fetch no
\* delete call is issued either and the zone's rules are as they were.
C30_FailureStopsBeforeCreate ==
  /\ ( \/ Answered("getZoneId", Failures)
       \/ Answered("getPageRules", Failures)
       \/ Answered("delete", Failures) ) =>
       /\ Requests("create") = <<>>
       /\ rpc \in {"catch", "raised"}
  /\ ( \/ Answered("getZoneId", Failures)
       \/ Answered("getPageRules", Failures) ) =>
       /\ Requests("delete") = <<>>
       /\ rules = rules0

\* ------------------------------------------- Reconciler: running it again
\* C28: a run that follows another one, with all.txt and the other snapshot
\* files untouched in between, writes what the run before it wrote.
C28_SecondRunWritesSameOutput ==
  runs >= 2 => dir[outputFileName] = dir0[outputFileName]

\* ----------------------------------------------- getDomains: what it returns
\* C25: getDomains returns the fetched items that pass the enabled filters
\* (created strictly later than now minus 365 days when excludeExpired,
\* status other than paused when excludePaused), each once and none added,
\* in ascending order of creation.
C25_FilteredAndSorted ==
  fpc = "returned" =>
    LET Pass(item) ==
          /\ excludeExpired => Later(InstantOf(item.created_on), YearAgo(Now))
          /\ excludePaused => item.status # "paused"
    IN  /\ \A i \in DOMAIN fetched : IsReturned(fetched[i]) <=> Pass(fetched[i])
        /\ \A k \in DOMAIN returned : \E i \in DOMAIN fetched : returned[k] = fetched[i]
        /\ \A k, h \in DOMAIN returned : k # h => returned[k].id # returned[h].id
        /\ \A k, h \in DOMAIN returned :
             k < h => ~Later(InstantOf(returned[k].created_on),
                             InstantOf(returned[h].created_on))

\* ----------------------------------------------------- getFilteredDNSRecords
\* A string is the sequence of its parts; includes() looks for a contiguous
\* run of parts.  "dkim" and "DKIM1" are different parts: includes() is
\* case-sensitive.
Includes(str, sub) ==
  \E i \in 1..(Len(str) - Len(sub) + 1) : SubSeq(str, i, i + Len(sub) - 1) = sub

\* The predicate of result.filter, lines 519-525.
MatchesContentOnly(record, content, type) == Includes(record.content, content)
Matches(record, content, type) ==
  IF type = "TXT" /\ content = <<"dkim">>
  THEN Includes(record.content, content) \/ Includes(record.name, <<"_domainkey">>)
  ELSE Includes(record.content, content)

\* DNS records of a zone: name and content.
RecordSamples ==
  { [name |-> <<"mail", "_domainkey", "a.com">>, content |-> <<"v=", "DKIM1">>],
    [name |-> <<"a.com">>,                       content |-> <<"dkim", "=", "on">>],
    [name |-> <<"a.com">>,                       content |-> <<"v=", "spf1">>],
    [name |-> <<"dkim", "a.com">>,               content |-> <<"v=", "spf1">>],
    [name |-> <<"s1", "_domainkey", "a.com">>,   content |-> <<"v=", "spf1">>],
    [name |-> <<"a.com">>,                       content |-> <<"DKIM1">>] }

ContentSamples == { <<"dkim">>, <<"spf1">>, <<"v=", "spf1">>, <<"_domainkey">> }

InitDkim ==
  \E type \in {"TXT", "CNAME"}, content \in ContentSamples, n \in 0..MaxListed :
  \E listed \in [1..n -> RecordSamples] :
    /\ qtype = type
    /\ qcontent = content
    /\ qresult = listed
    /\ qfiltered = <<>>
    /\ qpc = "request"
    /\ DkimRestIdle

\* getFilteredDNSRecords(zoneId, content, type), lines 512-526.
GetFilteredDNSRecords ==
  /\ qpc = "request"
  /\ \E outcome \in {"ok", "neterr"} :
       IF RequestThrows(outcome)
       THEN qpc' = "raised" /\ UNCHANGED qfiltered
       ELSE /\ qfiltered' = LET Test(record) == Matches(record, qcontent, qtype)
                            IN  SelectSeq(qresult, Test)
            /\ qpc' = "returned"
  /\ UNCHANGED <<qtype, qcontent, qresult>>
  /\ UNCHANGED restDkim

NextDkim == GetFilteredDNSRecords

SpecDkim == InitDkim /\ [][NextDkim]_vars

\* C21: the records returned are, in listed order, for type TXT and content
\* "dkim" those whose value contains "dkim" or whose host contains
\* "_domainkey", and for every other type and content those whose value
\* contains the content.
C21_DkimMatchesHostOrValue ==
  qpc = "returned" =>
    LET Wanted(record) ==
          \/ Includes(record.content, qcontent)
          \/ /\ qtype = "TXT" /\ qcontent = <<"dkim">>
             /\ Includes(record.name, <<"_domainkey">>)
    IN  qfiltered = SelectSeq(qresult, Wanted)

\* A TXT "dkim" query over a DKIM key record (host with _domainkey, value
\* v=DKIM1) and an SPF record: the first is returned, the second is not.
C21_Witness ==
  /\ qpc = "returned" /\ qtype = "TXT" /\ qcontent = <<"dkim">>
  /\ qresult = << [name |-> <<"a.com">>, content |-> <<"v=", "spf1">>],
                  [name |-> <<"mail", "_domainkey", "a.com">>,
                   content |-> <<"v=", "DKIM1">>] >>
  /\ qfiltered = << [name |-> <<"mail", "_domainkey", "a.com">>,
                     content |-> <<"v=", "DKIM1">>] >>

\* ===========================================================================
\* Porkbun tool: main, testApiConnection, processDomainFile,
\* processDomainList, processRecord, createDNSRecord (porkbun.ts).
\* ===========================================================================

\* What the server does with one POST: status SUCCESS, another status in a
\* 2xx body, or a rejected request (non-2xx, transport error).
PorkbunAnswers == {"SUCCESS", "ERROR", "neterr"}

\* Line 188: response.data.status === 'SUCCESS'; the catch returns false.
IsConnectedUnlessThrown(answer) == answer # "neterr"
IsConnected(answer) == answer = "SUCCESS"

\* createDNSRecord, lines 80-96: response.data, or the ERROR value of the
\* catch.
CreateDNSRecord(answer) ==
  IF answer = "neterr" THEN [status |-> "ERROR"] ELSE [status |-> answer]

\* line.split(/\s+/), line 132.
SplitWhitespace(line) == SplitOn(line, {SP, TAB})

\* const [domain, content] = ..., line 132: a missing element is undefined,
\* which like '' is falsy at line 133.
ElementOrEmpty(parts, i) == IF i <= Len(parts) THEN parts[i] ELSE <<>>

PorkbunLines ==
  { <<>>,
    <<"#", "a.com", SP, "v1">>,
    <<"a.com", SP, "v1">>,
    <<"b.com", TAB, "v2">>,
    <<"a.com">>,
    <<"b.com", SP>>,
    <<SP, "b.com", SP, "v1">>,
    <<"a.com", SP, "v1", SP, "v2">> }

PorkbunPairs ==
  { << <<"a.com">>, <<"v1">> >>,
    << <<"b.com">>, <<"v2">> >>,
    << <<"a.com">>, <<"v1", SP, "v2">> >> }

PingRequest(answer) ==
  [op |-> "ping", domain |-> <<>>, content |-> <<>>, answer |-> answer,
   result |-> IF IsConnected(answer) THEN "true" ELSE "false"]
CreateRequest(domain, content, answer) ==
  [op |-> "create", domain |-> domain, content |-> content,
   answer |-> answer, result |-> CreateDNSRecord(answer).status]

InitPorkbun ==
  /\ \E m \in {"list", "file"}, n \in 0..MaxEntries :
       /\ pmode = m
       /\ IF m = "list"
          THEN \E items \in [1..n -> PorkbunPairs] : pitems = items
          ELSE \E items \in [1..n -> PorkbunLines] : pitems = items
  /\ pk = 1
  /\ preqs = <<>>
  /\ ppc = "ping"
  /\ PorkbunRestIdle

\* main, lines 269-272, with testApiConnection.
TestApiConnection ==
  /\ ppc = "ping"
  /\ \E answer \in PorkbunAnswers :
       /\ preqs' = Append(preqs, PingRequest(answer))
       /\ ppc' = IF IsConnected(answer) THEN "open" ELSE "exit"
  /\ UNCHANGED <<pmode, pitems, pk>>
  /\ UNCHANGED restPorkbun

\* main, lines 274-278; processDomainFile, lines 124-126 and 140-142: a file
\* that cannot be read is reported and the function returns.
PorkbunOpen ==
  /\ ppc = "open"
  /\ \/ ppc' = "loop"
     \/ pmode = "file" /\ ppc' = "failed"
  /\ UNCHANGED <<pmode, pitems, pk, preqs>>
  /\ UNCHANGED restPorkbun

\* processDomainList, one turn of the loop of lines 147-149.
ProcessPair ==
  /\ ppc = "loop" /\ pmode = "list" /\ pk <= Len(pitems)
  /\ \E answer \in PorkbunAnswers :
       preqs' = Append(preqs,
                  CreateRequest(pitems[pk][1], pitems[pk][2], answer))
  /\ pk' = pk + 1
  /\ UNCHANGED <<pmode, pitems, ppc>>
  /\ UNCHANGED restPorkbun

\* processDomainFile, one turn of the loop of lines 128-139.
ProcessLine ==
  /\ ppc = "loop" /\ pmode = "file" /\ pk <= Len(pitems)
  /\ LET line == pitems[pk]
         parts == SplitWhitespace(line)
         domain == ElementOrEmpty(parts, 1)
         content == ElementOrEmpty(parts, 2)
     IN  IF Trim(line) = <<>> \/ StartsWithHash(Trim(line))
         THEN preqs' = preqs
         ELSE IF domain = <<>> \/ content = <<>>
         THEN preqs' = preqs
         ELSE \E answer \in PorkbunAnswers :
                preqs' = Append(preqs, CreateRequest(domain, content, answer))
  /\ pk' = pk + 1
  /\ UNCHANGED <<pmode, pitems, ppc>>
  /\ UNCHANGED restPorkbun

\* The loop is over and the function returns.
PorkbunReturn ==
  /\ ppc = "loop" /\ pk > Len(pitems)
  /\ ppc' = "done"
  /\ UNCHANGED <<pmode, pitems, pk, preqs>>
  /\ UNCHANGED restPorkbun

NextPorkbun ==
  \/ TestApiConnection
  \/ PorkbunOpen
  \/ ProcessPair
  \/ ProcessLine
  \/ PorkbunReturn

SpecPorkbun == InitPorkbun /\ [][NextPorkbun]_vars

Creates == SelectSeq(preqs, LAMBDA q : q.op = "create")

\* C23: a create request is only ever sent after a first request that was the
\* ping and was answered with status SUCCESS; a run that exits after the ping
\* has sent the ping and nothing else.
C23_NoCreateWithoutSuccessfulPing ==
  /\ Creates # <<>> =>
       /\ preqs[1].op = "ping" /\ preqs[1].answer = "SUCCESS"
       /\ \A i \in 2..Len(preqs) : preqs[i].op = "create"
  /\ preqs # <<>> /\ preqs[1].answer # "SUCCESS" =>
       ppc = "exit" /\ Len(preqs) = 1
  /\ ppc = "exit" => Creates = <<>> /\ preqs[1].answer # "SUCCESS"

\* C23, both cases on record: a run that ended after a ping answered with
\* another status although entries were waiting, and (C23_WitnessCreate) a
\* run that sent a create after a successful ping.
C23_Witness ==
  /\ ppc = "exit" /\ preqs[1].answer = "ERROR"
  /\ pmode = "list" /\ Len(pitems) = MaxEntries
C23_WitnessCreate ==
  ppc = "done" /\ Len(Creates) = MaxEntries

\* A line of the input file holds an entry when it is neither blank nor a
\* comment and has a domain and a value separated by whitespace (README of
\* the tool, "Input File Format").
WhitespaceFields(line) == SplitOn(Trim(line), {SP, TAB})
IsEntry(line) == IsData(line) /\ Len(WhitespaceFields(line)) >= 2

RECURSIVE EntriesOf(_)
EntriesOf(items) ==
  IF items = <<>> THEN <<>>
  ELSE IF pmode = "list"
       THEN << [domain |-> Head(items)[1], content |-> Head(items)[2]] >>
            \o EntriesOf(Tail(items))
       ELSE IF IsEntry(Head(items))
            THEN << [domain |-> WhitespaceFields(Head(items))[1],
                     content |-> WhitespaceFields(Head(items))[2]] >>
                 \o EntriesOf(Tail(items))
            ELSE EntriesOf(Tail(items))

\* C27: when the batch is over the create requests sent are, in input order,
\* one per entry of the list or of the file; every create came back as a
\* value, ERROR when the request failed or was answered with another status;
\* and every pair or line was gone through.
C27_OneCreatePerEntryInOrder ==
  /\ \A i \in DOMAIN Creates :
       /\ Creates[i].result \in {"SUCCESS", "ERROR"}
       /\ Creates[i].answer # "SUCCESS" => Creates[i].result = "ERROR"
  /\ ppc = "done" =>
       /\ pk = Len(pitems) + 1
       /\ Len(Creates) = Len(EntriesOf(pitems))
       /\ \A i \in DOMAIN Creates :
            /\ Creates[i].domain = EntriesOf(pitems)[i].domain
            /\ Creates[i].content = EntriesOf(pitems)[i].content

\* The same without the lines that begin with whitespace: what the code does
\* for the pairs of a list and for the lines that begin with their domain.
C27_Unindented ==
  (pmode = "file" => \A i \in DOMAIN pitems :
                       pitems[i] = <<>> \/ ~IsSpace(pitems[i][1]))
    => C27_OneCreatePerEntryInOrder

\* ------------------------------------------- Redirect: the error-log appends
AppendFailed(awaited) ==
  \E k \in DOMAIN appends : appends[k].awaited = awaited /\ appends[k].outcome = "fail"

\* An answer after which the call cannot go on: a failed lookup, fetch or
\* create, or a rejected delete request.
FailedAnswer ==
  \/ Answered("getZoneId", Failures)
  \/ Answered("getPageRules", Failures)
  \/ Answered("delete", {"neterr"})
  \/ Answered("create", Failures)

\* C26: whether changeDomainRedirect raises or returns is decided by the
\* answers of the API alone, however the appends to the error log ended, and
\* the error it raises is never the error of a failed append.
C26_AppendFailureNeverRaised ==
  /\ rpc \in {"catch", "raised"} <=> FailedAnswer
  /\ rpc = "done" => ~FailedAnswer /\ rerror = ""
  /\ rpc = "raised" => rerror # AppendError /\ rerror # ""

\* The create was answered with success: false, the awaited append of line
\* 645 failed, and the call has raised; and (C26_WitnessConsoleError) a call
\* that raised after an append started by console.error failed.
C26_Witness ==
  rpc = "raised" /\ AppendFailed(TRUE) /\ Answered("create", {"apifail"})
C26_WitnessConsoleError ==
  rpc = "raised" /\ AppendFailed(FALSE) /\ ~AppendFailed(TRUE)

\* ------------------------------------------------ Bulk: the caller's records
\* C31: when the batch has returned, every record object of the caller has
\* the type, host and value it had when the batch was called.
C31_InputsUnchanged ==
  pc = "done" => \A o \in DOMAIN heap : heap[o] = heap0[o]

\* ===========================================================================
\* The pipeline of the main IIFE, lines 755-756: the map built by
\* createDomainRecordsMapFromTextFile is handed to
\* createDifferentDNSRecordsForManyDomains.
\* ===========================================================================

\* The text of a field as one string.
RECURSIVE Join(_)
Join(tokens) == IF tokens = <<>> THEN "" ELSE Head(tokens) \o Join(Tail(tokens))

\* The record objects of a map, in the order of its keys and of each list.
RECURSIVE RecordObjects(_)
RecordObjects(map) ==
  IF map = <<>> THEN <<>>
  ELSE [k \in DOMAIN Head(map).records |->
          [type |-> Head(map).records[k].type,
           host |-> Head(map).records[k].host,
           value |-> Join(Head(map).records[k].value)]]
       \o RecordObjects(Tail(map))

\* The addresses of the record objects listed under the k-th key.
AddressesOf(map, k) ==
  LET before == SumLens(SubSeq(map, 1, k - 1))
  IN  [j \in 1..Len(map[k].records) |-> before + j]

\* Object.keys(domainToRecordsMap), line 328: a TypeError for null.
ObjectKeysThrows(value) == value.kind = "null"

\* Lines 756 and 327-328: the call, up to the first turn of its loop.  No
\* try block encloses line 328, and the IIFE has none either.
CallCreateDifferent ==
  /\ tpc = "returned"
  /\ tpc' = "called"
  /\ IF ObjectKeysThrows(tmap)
     THEN /\ pc' = "raised"
          /\ UNCHANGED <<mode, domains, recLists, heap, heap0, di, ri>>
     ELSE /\ mode' = "map"
          /\ domains' = [k \in DOMAIN tmap.map |-> Join(tmap.map[k].domain)]
          /\ recLists' = [k \in DOMAIN tmap.map |-> AddressesOf(tmap.map, k)]
          /\ heap' = RecordObjects(tmap.map)
          /\ heap0' = heap'
          /\ di' = 1 /\ ri' = 1
          /\ pc' = NextDomainPc(1)'
  /\ UNCHANGED <<domResults, results, calls>>
  /\ UNCHANGED <<lines, li, recordsMap, reported, tmap>>
  /\ UNCHANGED <<redirVars, pageVars>>
  /\ UNCHANGED <<reconVars, filterVars, manyVars, seqVars, dkimVars, porkbunVars>>

NextPipeline ==
  \/ ReadFile
  \/ ParseLine
  \/ ReturnMap
  \/ CallCreateDifferent
  \/ GetZoneId
  \/ InsertDNSRecord
  \/ DomainReturn
  \/ BatchReturn

SpecPipeline == InitText /\ [][NextPipeline]_vars

\* C32: the pipeline never raises; called with what a failed read left, it
\* ends with an empty result list and without any API call.
C32_PipelineReturnsResultList ==
  /\ pc # "raised"
  /\ (tpc = "called" /\ tmap.kind = "null") =>
       pc \in {"summary", "done"} /\ results = <<>> /\ calls = <<>>

=============================================================================
